---------------------------- MODULE Spec2Model ----------------------------
(***************************************************************************)
(* A model of simpad (src/simpad.c), a terminal text editor.               *)
(*                                                                         *)
(* Characters and key codes are the integers the C code uses (bytes are    *)
(* their ASCII codes, the editorKey enum starts at 1000).  Sequences are   *)
(* 1-based here and 0-based in C: every operator takes and returns the     *)
(* 0-based indices of the source and shifts by one only when it indexes.   *)
(***************************************************************************)
EXTENDS Integers, Sequences, FiniteSets, TLC

(***************************************************************************)
(* DEFINES (simpad.c 21-49)                                                *)
(***************************************************************************)
SIMPAD_TAB_STOP == 8
SIMPAD_QUIT_TIMES == 1

BACKSPACE == 127
ARROW_LEFT == 1000
ARROW_RIGHT == 1001
ARROW_UP == 1002
ARROW_DOWN == 1003
DEL_KEY == 1004
HOME_KEY == 1005
END_KEY == 1006
PAGE_UP == 1007
PAGE_DOWN == 1008

HIGHLIGHT_NORMAL == 0
HIGHLIGHT_NUMBER == 1
HIGHLIGHT_MATCH == 2

\* #define CTRL_KEY(k) ((k) & 0x1f)
CTRL_KEY(k) == k % 32

\* Bytes the source names by a character literal.
ESC == 27
TAB == 9
LF == 10
CR == 13
SPACE == 32

(***************************************************************************)
(* Bounds of the model.                                                    *)
(***************************************************************************)
\* Longest row content the row-function specification draws.
MaxRowLen == 3

(***************************************************************************)
(* SYNTAX HIGHLIGHTING (simpad.c 247-287)                                  *)
(***************************************************************************)
isdigit(c) == c >= 48 /\ c <= 57

isspace(c) == c \in {SPACE, TAB, LF, 11, 12, CR}

\* strchr(",.()+-/*=~%<>[];", c) != NULL; strchr also finds the terminator.
isSeparator(c) ==
    \/ isspace(c)
    \/ c = 0
    \/ c \in {44, 46, 40, 41, 43, 45, 47, 42, 61, 126, 37, 60, 62, 91, 93, 59}

\* SyntaxLoop colouring every digit, whatever precedes it.
RECURSIVE SyntaxLoop_AnyDigit(_, _, _)
SyntaxLoop_AnyDigit(render, hl, previousSeparator) ==
    IF Len(hl) >= Len(render) THEN hl
    ELSE LET i == Len(hl)
             c == render[i + 1]
             previousHighlight == IF i > 0 THEN hl[i] ELSE HIGHLIGHT_NORMAL
         IN  IF \/ isdigit(c)
                \/ c = 46 /\ previousHighlight = HIGHLIGHT_NUMBER
             THEN SyntaxLoop_AnyDigit(render, Append(hl, HIGHLIGHT_NUMBER), FALSE)
             ELSE SyntaxLoop_AnyDigit(render, Append(hl, HIGHLIGHT_NORMAL), isSeparator(c))

\* The while loop of editorUpdateSyntax: hl is the highlight array filled so
\* far (entries 0..i-1), previousSeparator the flag.
RECURSIVE SyntaxLoop(_, _, _)
SyntaxLoop(render, hl, previousSeparator) ==
    IF Len(hl) >= Len(render) THEN hl
    ELSE LET i == Len(hl)
             c == render[i + 1]
             previousHighlight == IF i > 0 THEN hl[i] ELSE HIGHLIGHT_NORMAL
         IN  IF \/ isdigit(c) /\ (previousSeparator \/ previousHighlight = HIGHLIGHT_NUMBER)
                \/ c = 46 /\ previousHighlight = HIGHLIGHT_NUMBER
             THEN SyntaxLoop(render, Append(hl, HIGHLIGHT_NUMBER), FALSE)
             ELSE SyntaxLoop(render, Append(hl, HIGHLIGHT_NORMAL), isSeparator(c))

editorUpdateSyntax(row) ==
    [row EXCEPT !.highlight = SyntaxLoop(row.render, <<>>, TRUE)]

editorSyntaxToColor(highlight) ==
    IF highlight = HIGHLIGHT_NUMBER THEN 31
    ELSE IF highlight = HIGHLIGHT_MATCH THEN 34
    ELSE 37

(***************************************************************************)
(* ROW OPERATIONS (simpad.c 289-414)                                       *)
(***************************************************************************)
\* The for loop of editorRowCursorXToRenderX from index i with renderX so far.
RECURSIVE CxToRxLoop(_, _, _, _)
CxToRxLoop(chars, cursorX, i, renderX) ==
    IF i >= cursorX THEN renderX
    ELSE LET r == IF chars[i + 1] = TAB
                  THEN renderX + (SIMPAD_TAB_STOP - 1) - (renderX % SIMPAD_TAB_STOP)
                  ELSE renderX
         IN  CxToRxLoop(chars, cursorX, i + 1, r + 1)

editorRowCursorXToRenderX(row, cursorX) ==
    CxToRxLoop(row.chars, cursorX, 0, 0)

\* editorRowRenderXToCursorX returning on >= in place of >.
RECURSIVE RxToCxLoop_Ge(_, _, _, _)
RxToCxLoop_Ge(row, renderX, cursorX, cursorRenderX) ==
    IF cursorX >= row.size THEN cursorX
    ELSE LET r == IF row.chars[cursorX + 1] = TAB
                  THEN cursorRenderX + (SIMPAD_TAB_STOP - 1)
                                     - (cursorRenderX % SIMPAD_TAB_STOP)
                  ELSE cursorRenderX
         IN  IF r + 1 >= renderX THEN cursorX
             ELSE RxToCxLoop_Ge(row, renderX, cursorX + 1, r + 1)

\* The for loop of editorRowRenderXToCursorX.
RECURSIVE RxToCxLoop(_, _, _, _)
RxToCxLoop(row, renderX, cursorX, cursorRenderX) ==
    IF cursorX >= row.size THEN cursorX
    ELSE LET r == IF row.chars[cursorX + 1] = TAB
                  THEN cursorRenderX + (SIMPAD_TAB_STOP - 1)
                                     - (cursorRenderX % SIMPAD_TAB_STOP)
                  ELSE cursorRenderX
         IN  IF r + 1 > renderX THEN cursorX
             ELSE RxToCxLoop(row, renderX, cursorX + 1, r + 1)

editorRowRenderXToCursorX(row, renderX) ==
    RxToCxLoop(row, renderX, 0, 0)

\* A tab of fixed width: SIMPAD_TAB_STOP - 1 spaces after the first, wherever
\* the tab starts.
PadFixedWidth(render) == render \o [k \in 1..(SIMPAD_TAB_STOP - 1) |-> SPACE]

\* The inner while of editorUpdateRow: pad with spaces to the next tab stop.
RECURSIVE PadToTabStop(_)
PadToTabStop(render) ==
    IF Len(render) % SIMPAD_TAB_STOP /= 0
    THEN PadToTabStop(Append(render, SPACE))
    ELSE render

\* The second for loop of editorUpdateRow.
RECURSIVE RenderLoop(_, _, _)
RenderLoop(chars, i, render) ==
    IF i >= Len(chars) THEN render
    ELSE IF chars[i + 1] = TAB
         THEN RenderLoop(chars, i + 1, PadToTabStop(Append(render, SPACE)))
         ELSE RenderLoop(chars, i + 1, Append(render, chars[i + 1]))

\* The first for loop of editorUpdateRow: the tabs counted for the malloc.
CountTabs(chars) == Cardinality({i \in 1..Len(chars) : chars[i] = TAB})

editorUpdateRow(row) ==
    LET render == RenderLoop(row.chars, 0, <<>>)
    IN  editorUpdateSyntax([row EXCEPT !.render = render,
                                       !.renderSize = Len(render)])

\* A row as editorInsertRow builds it (lines 357-365).
NewRow(s) ==
    editorUpdateRow([size |-> Len(s), renderSize |-> 0, chars |-> s,
                     render |-> <<>>, highlight |-> <<>>])


\* The row array with a row inserted at 0-based index at (the realloc/memmove
\* of lines 354-355) and with the row at index at removed (line 380).
InsertAt(rows, at, r) ==
    SubSeq(rows, 1, at) \o <<r>> \o SubSeq(rows, at + 1, Len(rows))

RemoveAt(rows, at) ==
    SubSeq(rows, 1, at) \o SubSeq(rows, at + 2, Len(rows))

\* All operations below take the editor state E (struct editorConfig) and
\* return the state they leave.
\* editorInsertRow refusing at == E.numRows too.
editorInsertRow_NoAppend(E, at, s) ==
    IF at < 0 \/ at >= E.numRows THEN E
    ELSE [E EXCEPT !.row = InsertAt(E.row, at, NewRow(s)),
                   !.numRows = E.numRows + 1,
                   !.changed = E.changed + 1]

editorInsertRow(E, at, s) ==
    IF at < 0 \/ at > E.numRows THEN E
    ELSE [E EXCEPT !.row = InsertAt(E.row, at, NewRow(s)),
                   !.numRows = E.numRows + 1,
                   !.changed = E.changed + 1]

\* editorDeleteRow letting at == E.numRows through.
editorDeleteRow_OffByOne(E, at) ==
    IF at < 0 \/ at > E.numRows THEN E
    ELSE [E EXCEPT !.row = RemoveAt(E.row, at),
                   !.numRows = E.numRows - 1,
                   !.changed = E.changed + 1]

editorDeleteRow(E, at) ==
    IF at < 0 \/ at >= E.numRows THEN E
    ELSE [E EXCEPT !.row = RemoveAt(E.row, at),
                   !.numRows = E.numRows - 1,
                   !.changed = E.changed + 1]

\* editorRowInsertCharacter taking a negative at to index 0.
editorRowInsertCharacter_ClampLow(E, y, at0, character) ==
    LET row == E.row[y + 1]
        at == IF at0 < 0 THEN 0 ELSE IF at0 > row.size THEN row.size ELSE at0
        chars == SubSeq(row.chars, 1, at) \o <<character>>
                     \o SubSeq(row.chars, at + 1, row.size)
    IN  [E EXCEPT !.row[y + 1] = editorUpdateRow([row EXCEPT !.chars = chars,
                                                             !.size = row.size + 1]),
                  !.changed = E.changed + 1]

\* The row operations take the 0-based index y of the row in E.row, where
\* the C code takes a pointer to it.
editorRowInsertCharacter(E, y, at0, character) ==
    LET row == E.row[y + 1]
        at == IF at0 < 0 \/ at0 > row.size THEN row.size ELSE at0
        chars == SubSeq(row.chars, 1, at) \o <<character>>
                     \o SubSeq(row.chars, at + 1, row.size)
    IN  [E EXCEPT !.row[y + 1] = editorUpdateRow([row EXCEPT !.chars = chars,
                                                             !.size = row.size + 1]),
                  !.changed = E.changed + 1]

\* editorRowAppendString without its E.changed++.
editorRowAppendString_NoCount(E, y, s) ==
    LET row == E.row[y + 1]
    IN  [E EXCEPT !.row[y + 1] = editorUpdateRow([row EXCEPT !.chars = row.chars \o s,
                                                             !.size = row.size + Len(s)])]

editorRowAppendString(E, y, s) ==
    LET row == E.row[y + 1]
    IN  [E EXCEPT !.row[y + 1] = editorUpdateRow([row EXCEPT !.chars = row.chars \o s,
                                                             !.size = row.size + Len(s)]),
                  !.changed = E.changed + 1]

editorRowDeleteCharacter(E, y, at) ==
    LET row == E.row[y + 1]
    IN  IF at < 0 \/ at >= row.size THEN E
        ELSE [E EXCEPT !.row[y + 1] =
                           editorUpdateRow([row EXCEPT !.chars = SubSeq(row.chars, 1, at)
                                                          \o SubSeq(row.chars, at + 2, row.size),
                                                       !.size = row.size - 1]),
                       !.changed = E.changed + 1]

(***************************************************************************)
(* EDITOR OPERATIONS (simpad.c 416-459)                                    *)
(*                                                                         *)
(* E.row holds E.numRows rows.  With cursorY > numRows (see editorProcess- *)
(* Keypress, PAGE_DOWN) &E.row[E.cursorY] points past the array: the       *)
(* operations that dereference it are undefined there, and the actions     *)
(* that use them branch on InBounds before they call them.                 *)
(***************************************************************************)
editorInsertCharacter(E, c) ==
    LET E1 == IF E.cursorY = E.numRows THEN editorInsertRow(E, E.numRows, <<>>) ELSE E
        E2 == editorRowInsertCharacter(E1, E1.cursorY, E1.cursorX, c)
    IN  [E2 EXCEPT !.cursorX = E2.cursorX + 1]

\* editorInsertNewline without the editorUpdateRow of the row it cuts.
editorInsertNewline_NoUpdate(E) ==
    LET E3 == IF E.cursorX = 0
              THEN editorInsertRow(E, E.cursorY, <<>>)
              ELSE LET row == E.row[E.cursorY + 1]
                       E1 == editorInsertRow(E, E.cursorY + 1,
                                 SubSeq(row.chars, E.cursorX + 1, row.size))
                       row1 == E1.row[E1.cursorY + 1]
                   IN  [E1 EXCEPT !.row[E1.cursorY + 1] =
                           [row1 EXCEPT !.size = E1.cursorX,
                                        !.chars = SubSeq(row1.chars, 1, E1.cursorX)]]
    IN  [E3 EXCEPT !.cursorY = E3.cursorY + 1, !.cursorX = 0]

editorInsertNewline(E) ==
    LET E3 == IF E.cursorX = 0
              THEN editorInsertRow(E, E.cursorY, <<>>)
              ELSE LET row == E.row[E.cursorY + 1]
                       E1 == editorInsertRow(E, E.cursorY + 1,
                                 SubSeq(row.chars, E.cursorX + 1, row.size))
                       row1 == E1.row[E1.cursorY + 1]
                   IN  [E1 EXCEPT !.row[E1.cursorY + 1] =
                           editorUpdateRow([row1 EXCEPT
                               !.size = E1.cursorX,
                               !.chars = SubSeq(row1.chars, 1, E1.cursorX)])]
    IN  [E3 EXCEPT !.cursorY = E3.cursorY + 1, !.cursorX = 0]

\* editorDeleteCharacter erasing the byte under the cursor, not the one left
\* of it.
editorDeleteCharacter_At(E) ==
    IF E.cursorY = E.numRows THEN E
    ELSE IF E.cursorX = 0 /\ E.cursorY = 0 THEN E
    ELSE IF E.cursorX > 0
         THEN LET E1 == editorRowDeleteCharacter(E, E.cursorY, E.cursorX)
              IN  [E1 EXCEPT !.cursorX = E1.cursorX - 1]
         ELSE LET row == E.row[E.cursorY + 1]
                  E1 == [E EXCEPT !.cursorX = E.row[E.cursorY].size]
                  E2 == editorRowAppendString(E1, E1.cursorY - 1, row.chars)
                  E3 == editorDeleteRow(E2, E2.cursorY)
              IN  [E3 EXCEPT !.cursorY = E3.cursorY - 1]

\* editorDeleteCharacter taking the cursor column after the rows are joined.
editorDeleteCharacter_XAfterJoin(E) ==
    IF E.cursorY = E.numRows THEN E
    ELSE IF E.cursorX = 0 /\ E.cursorY = 0 THEN E
    ELSE IF E.cursorX > 0
         THEN LET E1 == editorRowDeleteCharacter(E, E.cursorY, E.cursorX - 1)
              IN  [E1 EXCEPT !.cursorX = E1.cursorX - 1]
         ELSE LET row == E.row[E.cursorY + 1]
                  E1 == editorRowAppendString(E, E.cursorY - 1, row.chars)
                  E2 == [E1 EXCEPT !.cursorX = E1.row[E1.cursorY].size]
                  E3 == editorDeleteRow(E2, E2.cursorY)
              IN  [E3 EXCEPT !.cursorY = E3.cursorY - 1]

editorDeleteCharacter(E) ==
    IF E.cursorY = E.numRows THEN E
    ELSE IF E.cursorX = 0 /\ E.cursorY = 0 THEN E
    ELSE IF E.cursorX > 0
         THEN LET E1 == editorRowDeleteCharacter(E, E.cursorY, E.cursorX - 1)
              IN  [E1 EXCEPT !.cursorX = E1.cursorX - 1]
         ELSE LET row == E.row[E.cursorY + 1]
                  E1 == [E EXCEPT !.cursorX = E.row[E.cursorY].size]
                  E2 == editorRowAppendString(E1, E1.cursorY - 1, row.chars)
                  E3 == editorDeleteRow(E2, E2.cursorY)
              IN  [E3 EXCEPT !.cursorY = E3.cursorY - 1]

(***************************************************************************)
(* FILE INPUT/OUTPUT (simpad.c 461-540)                                    *)
(***************************************************************************)
\* The bytes editorRowsToString returns (bufferLen is their length).
\* editorRowsToString putting the LF between rows, none after the last.
RECURSIVE RowsToStringLoop_Between(_, _, _)
RowsToStringLoop_Between(E, i, buffer) ==
    IF i >= E.numRows THEN buffer
    ELSE RowsToStringLoop_Between(E, i + 1,
             buffer \o E.row[i + 1].chars
                    \o (IF i + 1 < E.numRows THEN <<LF>> ELSE <<>>))

RECURSIVE RowsToStringLoop(_, _, _)
RowsToStringLoop(E, i, buffer) ==
    IF i >= E.numRows THEN buffer
    ELSE RowsToStringLoop(E, i + 1, buffer \o E.row[i + 1].chars \o <<LF>>)

editorRowsToString(E) == RowsToStringLoop(E, 0, <<>>)

\* getline(3) on the unread bytes of the file: the bytes up to and including
\* the first LF, or all of them when there is none.
RECURSIVE GetLine(_, _)
GetLine(bytes, n) ==
    IF n >= Len(bytes) THEN bytes
    ELSE IF bytes[n + 1] = LF THEN SubSeq(bytes, 1, n + 1)
    ELSE GetLine(bytes, n + 1)

\* The inner while of editorOpen: drop the trailing LF and CR bytes.
RECURSIVE StripLine(_)
StripLine(line) ==
    IF Len(line) > 0 /\ (line[Len(line)] = LF \/ line[Len(line)] = CR)
    THEN StripLine(SubSeq(line, 1, Len(line) - 1))
    ELSE line

\* The outer while of editorOpen over the unread bytes.
RECURSIVE OpenLoop(_, _)
OpenLoop(E, bytes) ==
    IF Len(bytes) = 0 THEN E
    ELSE LET line == GetLine(bytes, 0)
         IN  OpenLoop(editorInsertRow(E, E.numRows, StripLine(line)),
                      SubSeq(bytes, Len(line) + 1, Len(bytes)))

\* editorOpen of a file that fopen opens, holding bytes.
editorOpen(E, fileName, bytes) ==
    [OpenLoop([E EXCEPT !.fileName = fileName], bytes) EXCEPT !.changed = 0]

(***************************************************************************)
(* OUTPUT: editorScroll, editorSetStatusMessage (simpad.c 658-680, 819-825)*)
(***************************************************************************)
\* editorScroll without the "+ 1" of lines 670 and 678.
editorScroll_OffByOne(E) ==
    LET renderX == IF E.cursorY < E.numRows
                   THEN editorRowCursorXToRenderX(E.row[E.cursorY + 1], E.cursorX)
                   ELSE 0
        ro1 == IF E.cursorY < E.rowOffset THEN E.cursorY ELSE E.rowOffset
        ro2 == IF E.cursorY >= ro1 + E.termRows THEN E.cursorY - E.termRows ELSE ro1
        co1 == IF renderX < E.colOffset THEN renderX ELSE E.colOffset
        co2 == IF renderX >= co1 + E.termCols THEN renderX - E.termCols ELSE co1
    IN  [E EXCEPT !.renderX = renderX, !.rowOffset = ro2, !.colOffset = co2]

editorScroll(E) ==
    LET renderX == IF E.cursorY < E.numRows
                   THEN editorRowCursorXToRenderX(E.row[E.cursorY + 1], E.cursorX)
                   ELSE 0
        ro1 == IF E.cursorY < E.rowOffset THEN E.cursorY ELSE E.rowOffset
        ro2 == IF E.cursorY >= ro1 + E.termRows THEN E.cursorY - E.termRows + 1 ELSE ro1
        co1 == IF renderX < E.colOffset THEN renderX ELSE E.colOffset
        co2 == IF renderX >= co1 + E.termCols THEN renderX - E.termCols + 1 ELSE co1
    IN  [E EXCEPT !.renderX = renderX, !.rowOffset = ro2, !.colOffset = co2]

\* A status message is its format string and the arguments formatted into it
\* (a byte sequence for %s, <<n>> for %d, <<>> for none).
Msg(fmt, arg) == [fmt |-> fmt, arg |-> arg]

editorSetStatusMessage(E, fmt, arg) == [E EXCEPT !.statusMsg = Msg(fmt, arg)]

(***************************************************************************)
(* INPUT: editorMoveCursor (simpad.c 877-910)                              *)
(***************************************************************************)
\* ARROW_LEFT from column 0 reads E.row[cursorY - 1].size; with
\* cursorY > numRows that row is past the array.
MoveReadsPastRows(E, key) ==
    key = ARROW_LEFT /\ E.cursorX = 0 /\ E.cursorY > 0 /\ E.cursorY - 1 >= E.numRows

\* The value such a read yields is replaced by 0 here: the clamp that ends
\* the function overwrites it (the row is NULL there, rowLength 0).
editorMoveCursor(E, key) ==
    LET hasRow == E.cursorY < E.numRows
        size == IF hasRow THEN E.row[E.cursorY + 1].size ELSE 0
        E1 == IF key = ARROW_LEFT
              THEN IF E.cursorX /= 0 THEN [E EXCEPT !.cursorX = E.cursorX - 1]
                   ELSE IF E.cursorY > 0
                        THEN [E EXCEPT !.cursorY = E.cursorY - 1,
                                       !.cursorX = IF E.cursorY - 1 < E.numRows
                                                   THEN E.row[E.cursorY].size
                                                   ELSE 0]
                        ELSE E
              ELSE IF key = ARROW_RIGHT
              THEN IF hasRow /\ E.cursorX < size THEN [E EXCEPT !.cursorX = E.cursorX + 1]
                   ELSE IF hasRow /\ E.cursorX = size
                        THEN [E EXCEPT !.cursorY = E.cursorY + 1, !.cursorX = 0]
                        ELSE E
              ELSE IF key = ARROW_UP
              THEN IF E.cursorY /= 0 THEN [E EXCEPT !.cursorY = E.cursorY - 1] ELSE E
              ELSE IF key = ARROW_DOWN
              THEN IF E.cursorY < E.numRows THEN [E EXCEPT !.cursorY = E.cursorY + 1] ELSE E
              ELSE E
        rowLength == IF E1.cursorY >= E1.numRows THEN 0 ELSE E1.row[E1.cursorY + 1].size
    IN  IF E1.cursorX > rowLength THEN [E1 EXCEPT !.cursorX = rowLength] ELSE E1

\* while (times--) editorMoveCursor(key);
RECURSIVE MoveTimes(_, _, _)
MoveTimes(E, key, times) ==
    IF times = 0 THEN E ELSE MoveTimes(editorMoveCursor(E, key), key, times - 1)

\* case PAGE_UP / PAGE_DOWN of editorProcessKeypress (lines 964-980).
PageMove(E, c) ==
    LET y == IF c = PAGE_UP THEN E.rowOffset
             ELSE IF E.rowOffset + E.termRows - 1 > E.termRows THEN E.numRows
             ELSE E.rowOffset + E.termRows - 1
    IN  MoveTimes([E EXCEPT !.cursorY = y],
                  IF c = PAGE_UP THEN ARROW_UP ELSE ARROW_DOWN, E.termRows)

(***************************************************************************)
(* SEARCH FEATURE (simpad.c 542-625)                                       *)
(***************************************************************************)
\* strstr(render, query) - render: the 0-based offset of the first occurrence
\* of query in render, -1 for NULL.  Rows hold no NUL byte here.
IsAt(render, query, k) ==
    /\ k + Len(query) <= Len(render)
    /\ \A j \in 1..Len(query) : render[k + j] = query[j]

strstr(render, query) ==
    LET hits == {k \in 0..Len(render) : IsAt(render, query, k)}
    IN  IF hits = {} THEN -1 ELSE CHOOSE k \in hits : \A m \in hits : k <= m

\* memset(&highlight[match], HIGHLIGHT_MATCH, strlen(query))
MarkMatch(highlight, match, n) ==
    [i \in 1..Len(highlight) |->
        IF i - 1 >= match /\ i - 1 < match + n THEN HIGHLIGHT_MATCH ELSE highlight[i]]

\* The statics of editorFindCallback (lines 546-550); savedHighlight is
\* NULL when F.saved is FALSE.
FindStatics0 ==
    [lastMatch |-> -1, direction |-> 1, savedHighlightedLine |-> 0,
     saved |-> FALSE, savedHighlight |-> <<>>]

\* FindLoop wrapping a backward search from row 0 to row 0.
RECURSIVE FindLoop_WrapToTop(_, _, _, _)
FindLoop_WrapToTop(S, query, current0, i) ==
    IF i >= S.E.numRows THEN S
    ELSE LET c1 == current0 + S.F.direction
             current == IF c1 = -1 THEN 0
                        ELSE IF c1 = S.E.numRows THEN 0 ELSE c1
             row == S.E.row[current + 1]
             match == strstr(row.render, query)
         IN  IF match /= -1
             THEN [E |-> [S.E EXCEPT
                             !.cursorY = current,
                             !.cursorX = editorRowRenderXToCursorX(row, match),
                             !.rowOffset = S.E.numRows,
                             !.row[current + 1].highlight =
                                 MarkMatch(row.highlight, match, Len(query))],
                   F |-> [S.F EXCEPT !.lastMatch = current,
                                     !.savedHighlightedLine = current,
                                     !.saved = TRUE,
                                     !.savedHighlight = row.highlight]]
             ELSE FindLoop_WrapToTop(S, query, current, i + 1)

\* FindLoop with E.rowOffset = E.numRows done before the test of match.
RECURSIVE FindLoop_ScrollFirst(_, _, _, _)
FindLoop_ScrollFirst(S, query, current0, i) ==
    IF i >= S.E.numRows THEN S
    ELSE LET c1 == current0 + S.F.direction
             current == IF c1 = -1 THEN S.E.numRows - 1
                        ELSE IF c1 = S.E.numRows THEN 0 ELSE c1
             row == S.E.row[current + 1]
             match == strstr(row.render, query)
         IN  IF match /= -1
             THEN [E |-> [S.E EXCEPT
                             !.cursorY = current,
                             !.cursorX = editorRowRenderXToCursorX(row, match),
                             !.rowOffset = S.E.numRows,
                             !.row[current + 1].highlight =
                                 MarkMatch(row.highlight, match, Len(query))],
                   F |-> [S.F EXCEPT !.lastMatch = current,
                                     !.savedHighlightedLine = current,
                                     !.saved = TRUE,
                                     !.savedHighlight = row.highlight]]
             ELSE FindLoop_ScrollFirst([S EXCEPT !.E.rowOffset = S.E.numRows],
                                       query, current, i + 1)

\* The for loop of editorFindCallback (lines 579-604): S is [E, F], the
\* editor state and the statics.
RECURSIVE FindLoop(_, _, _, _)
FindLoop(S, query, current0, i) ==
    IF i >= S.E.numRows THEN S
    ELSE LET c1 == current0 + S.F.direction
             current == IF c1 = -1 THEN S.E.numRows - 1
                        ELSE IF c1 = S.E.numRows THEN 0 ELSE c1
             row == S.E.row[current + 1]
             match == strstr(row.render, query)
         IN  IF match /= -1
             THEN [E |-> [S.E EXCEPT
                             !.cursorY = current,
                             !.cursorX = editorRowRenderXToCursorX(row, match),
                             !.rowOffset = S.E.numRows,
                             !.row[current + 1].highlight =
                                 MarkMatch(row.highlight, match, Len(query))],
                   F |-> [S.F EXCEPT !.lastMatch = current,
                                     !.savedHighlightedLine = current,
                                     !.saved = TRUE,
                                     !.savedHighlight = row.highlight]]
             ELSE FindLoop(S, query, current, i + 1)

\* editorFindCallback starting every search from the top, arrows included.
editorFindCallback_FromTop(S, query, key) ==
    LET E1 == IF S.F.saved
              THEN [S.E EXCEPT !.row[S.F.savedHighlightedLine + 1].highlight =
                                   S.F.savedHighlight]
              ELSE S.E
        F1 == [S.F EXCEPT !.saved = FALSE, !.savedHighlight = <<>>]
    IN  IF key = CR \/ key = ESC
        THEN [E |-> E1, F |-> [F1 EXCEPT !.lastMatch = -1, !.direction = 1]]
        ELSE LET F2 == IF key = ARROW_LEFT \/ key = ARROW_UP
                       THEN [F1 EXCEPT !.direction = -1]
                       ELSE [F1 EXCEPT !.lastMatch = -1, !.direction = 1]
                 F3 == IF F2.lastMatch = -1 THEN [F2 EXCEPT !.direction = 1] ELSE F2
             IN  FindLoop([E |-> E1, F |-> F3], query, F3.lastMatch, 0)

\* editorFindCallback without the if (savedHighlight) of lines 552-556.
editorFindCallback_NoRestore(S, query, key) ==
    IF key = CR \/ key = ESC
    THEN [E |-> S.E, F |-> [S.F EXCEPT !.lastMatch = -1, !.direction = 1]]
    ELSE LET F2 == IF key = ARROW_RIGHT \/ key = ARROW_DOWN
                   THEN [S.F EXCEPT !.direction = 1]
                   ELSE IF key = ARROW_LEFT \/ key = ARROW_UP
                   THEN [S.F EXCEPT !.direction = -1]
                   ELSE [S.F EXCEPT !.lastMatch = -1, !.direction = 1]
             F3 == IF F2.lastMatch = -1 THEN [F2 EXCEPT !.direction = 1] ELSE F2
         IN  FindLoop([E |-> S.E, F |-> F3], query, F3.lastMatch, 0)

editorFindCallback(S, query, key) ==
    LET E1 == IF S.F.saved
              THEN [S.E EXCEPT !.row[S.F.savedHighlightedLine + 1].highlight =
                                   S.F.savedHighlight]
              ELSE S.E
        F1 == [S.F EXCEPT !.saved = FALSE, !.savedHighlight = <<>>]
    IN  IF key = CR \/ key = ESC
        THEN [E |-> E1, F |-> [F1 EXCEPT !.lastMatch = -1, !.direction = 1]]
        ELSE LET F2 == IF key = ARROW_RIGHT \/ key = ARROW_DOWN
                       THEN [F1 EXCEPT !.direction = 1]
                       ELSE IF key = ARROW_LEFT \/ key = ARROW_UP
                       THEN [F1 EXCEPT !.direction = -1]
                       ELSE [F1 EXCEPT !.lastMatch = -1, !.direction = 1]
                 F3 == IF F2.lastMatch = -1 THEN [F2 EXCEPT !.direction = 1] ELSE F2
             IN  FindLoop([E |-> E1, F |-> F3], query, F3.lastMatch, 0)

\* The rows the for loop of editorFindCallback passes to strstr, in order:
\* the loop of FindLoop, keeping the values of current.
RECURSIVE FindVisits(_, _, _, _)
FindVisits(S, query, current0, i) ==
    IF i >= S.E.numRows THEN <<>>
    ELSE LET c1 == current0 + S.F.direction
             current == IF c1 = -1 THEN S.E.numRows - 1
                        ELSE IF c1 = S.E.numRows THEN 0 ELSE c1
             match == strstr(S.E.row[current + 1].render, query)
         IN  IF match /= -1 THEN <<current>>
             ELSE <<current>> \o FindVisits(S, query, current, i + 1)

\* The rows one call of editorFindCallback examines: none when it returns
\* at line 560, else those of its loop from lastMatch in direction.
editorFindVisits(S, query, key) ==
    IF key = CR \/ key = ESC THEN <<>>
    ELSE LET F2 == IF key = ARROW_RIGHT \/ key = ARROW_DOWN
                   THEN [S.F EXCEPT !.direction = 1]
                   ELSE IF key = ARROW_LEFT \/ key = ARROW_UP
                   THEN [S.F EXCEPT !.direction = -1]
                   ELSE [S.F EXCEPT !.lastMatch = -1, !.direction = 1]
             F3 == IF F2.lastMatch = -1 THEN [F2 EXCEPT !.direction = 1] ELSE F2
         IN  FindVisits([E |-> S.E, F |-> F3], query, F3.lastMatch, 0)

(***************************************************************************)
(* OUTPUT: the frame editorRefreshScreen writes (simpad.c 682-816).  The   *)
(* append buffer is a sequence of pieces, one for each bufferAppend: an    *)
(* escape sequence is a record of what follows its byte 27 (and of the     *)
(* numbers a format puts in it), text is a record of its bytes.            *)
(* bufferAppend is taken to find its memory.                               *)
(***************************************************************************)
HideCursor == [esc |-> "[?25l"]

\* The terminal's cursor-show sequence; simpad.c has no write of it.
ShowCursor == [esc |-> "[?25h"]

CursorHome == [esc |-> "[H"]

\* snprintf(buf, sizeof(buf), "\x1b[%d;%dH", y, x)
CursorPosition(y, x) == [esc |-> "[%d;%dH", n |-> <<y, x>>]

\* The for loop of lines 726-745 over the len bytes of a row in the window.
RECURSIVE DrawChars(_, _, _, _, _)
DrawChars(row, colOffset, len, i, currentColor) ==
    IF i >= len THEN <<>>
    ELSE LET c == [text |-> <<row.render[colOffset + i + 1]>>]
             hl == row.highlight[colOffset + i + 1]
         IN  IF hl = HIGHLIGHT_NORMAL
             THEN (IF currentColor /= -1 THEN <<[esc |-> "[39m"]>> ELSE <<>>)
                  \o <<c>> \o DrawChars(row, colOffset, len, i + 1, -1)
             ELSE LET color == editorSyntaxToColor(hl)
                  IN  (IF color /= currentColor THEN <<[esc |-> "[%dm", n |-> color]>> ELSE <<>>)
                      \o <<c>> \o DrawChars(row, colOffset, len, i + 1, color)

\* One turn of the for loop of editorDrawRows, screen line x.
DrawLine(E, x) ==
    LET fileRow == x + E.rowOffset
    IN  (IF fileRow >= E.numRows
         THEN IF E.numRows = 0 /\ x = E.termRows \div 3
              THEN <<[welcome |-> E.termCols]>>
              ELSE <<[text |-> <<126>>]>>
         ELSE LET row == E.row[fileRow + 1]
                  len0 == row.renderSize - E.colOffset
                  len1 == IF len0 < 0 THEN 0 ELSE len0
                  len == IF len1 > E.termCols THEN E.termCols ELSE len1
              IN  DrawChars(row, E.colOffset, len, 0, -1) \o <<[esc |-> "[39m"]>>)
        \o <<[esc |-> "[K"], [text |-> <<CR, LF>>]>>

RECURSIVE DrawRowsLoop(_, _)
DrawRowsLoop(E, x) ==
    IF x >= E.termRows THEN <<>> ELSE DrawLine(E, x) \o DrawRowsLoop(E, x + 1)

editorDrawRows(E) == DrawRowsLoop(E, 0)

\* The two snprintf texts are kept as what they are made of.
editorDrawStatusBar(E) ==
    <<[esc |-> "[7m"],
      [status |-> <<E.fileName, E.numRows, E.changed /= 0, E.cursorY + 1>>],
      [esc |-> "[m"], [text |-> <<CR, LF>>]>>

\* fresh: time(NULL) - E.statusMsg_time < 5.
editorDrawMessageBar(E, fresh) ==
    <<[esc |-> "[K"]>> \o (IF E.statusMsg /= Msg("", <<>>) /\ fresh
                    THEN <<[message |-> E.statusMsg]>> ELSE <<>>)

\* The pieces of ab at the write of line 814, editorScroll done.
Frame(E, fresh) ==
    <<HideCursor, CursorHome>>
    \o editorDrawRows(E)
    \o editorDrawStatusBar(E)
    \o editorDrawMessageBar(E, fresh)
    \o <<CursorPosition((E.cursorY - E.rowOffset) + 1, (E.renderX - E.colOffset) + 1)>>
    \o <<HideCursor>>

\* The terminal after the pieces are written to it: its cursor is as the
\* last ESC[?25l or ESC[?25h of them says.
Written(t, pieces) ==
    LET set == {i \in 1..Len(pieces) : pieces[i] \in {HideCursor, ShowCursor}}
    IN  IF set = {} THEN t
        ELSE LET last == CHOOSE i \in set : \A j \in set : j <= i
             IN  [t EXCEPT !.cursor = IF pieces[last] = ShowCursor THEN "shown"
                                      ELSE "hidden"]

(***************************************************************************)
(* STATE                                                                   *)
(***************************************************************************)
VARIABLES
    E,          \* struct editorConfig E (lines 61-78)
    F,          \* the statics of editorFindCallback (lines 546-550)
    quit_times, \* the static of editorProcessKeypress (line 914)
    prompt,     \* the editorPrompt call in progress: its caller and buffer
    findSaved,  \* the locals of editorFind (lines 609-612)
    pc,         \* where the process is: "main", "refresh", "key", "exit0",
                \* "exit1", "segv", "corrupt"
    rk,         \* one call of editorReadKey: its position and locals
    tty,        \* the terminal as the bytes written to it leave it
    h           \* the scenario a specification runs (unused by Spec)

vars == <<E, F, quit_times, prompt, findSaved, pc, rk, tty, h>>

\* fileName is a byte sequence, <<>> for NULL.
NULL == <<>>

NoPrompt == [kind |-> "none", buffer |-> <<>>]

NoSaved == [cursorX |-> 0, cursorY |-> 0, colOffset |-> 0, rowOffset |-> 0]

\* editorReadKey not modelled byte by byte: rk rests.
RkIdle == [pc |-> "idle", c |-> 0, seq |-> <<>>, key |-> 0, waits |-> 0, cut |-> FALSE]

HIdle == [step |-> "none", in |-> <<>>, out |-> <<>>]

\* initEditor (lines 1006-1025) in a window of ws_row rows and ws_col columns.
initEditor(ws_row, ws_col) ==
    [cursorX |-> 0, cursorY |-> 0, renderX |-> 0, rowOffset |-> 0, colOffset |-> 0,
     termRows |-> ws_row - 2, termCols |-> ws_col,
     numRows |-> 0, row |-> <<>>, changed |-> 0, fileName |-> NULL,
     statusMsg |-> Msg("", <<>>)]

(***************************************************************************)
(* Inputs and bounds of the editor specification.                          *)
(***************************************************************************)
\* The windows getWindowSize reports, <<ws_row, ws_col>>.  The editor keeps
\* two rows for its bars, so a window has at least three.
WindowSizes == {<<3, 3>>, <<4, 10>>}

\* The bytes typed into the document and into a prompt: '1' and TAB.
InsertChars == {49, TAB}

\* The files main may be started on: <<name, bytes>>; here "1" holding
\* "\t1\n1\n".
StartFiles == {<< <<49>>, <<TAB, 49, LF, 49, LF>> >>}

\* The most rows and the longest row the editor specification explores.
MaxRows == 2
MaxLen == 2
\* The largest value of the modified counter it explores.
MaxChanged == 2
\* The longest prompt buffer it explores.
MaxBuf == 1
\* The same for the scenario specifications, which start from larger
\* documents and run a few operations on them.
ScnRows == 4
ScnLen == 6
ScnChanged == 4
ScnBuf == 3

Limit ==
    IF h.step \in {"none", "quit"}
    THEN [rows |-> MaxRows, len |-> MaxLen, changed |-> MaxChanged, buf |-> MaxBuf]
    ELSE [rows |-> ScnRows, len |-> ScnLen, changed |-> ScnChanged, buf |-> ScnBuf]

Bounded(E1) ==
    /\ E1.numRows <= Limit.rows
    /\ \A i \in 1..Len(E1.row) : E1.row[i].size <= Limit.len
    /\ E1.changed <= Limit.changed
    /\ E1.cursorY <= Limit.rows + 1

\* The process as main finds it after enableRawMode and initEditor.
EdInit ==
    /\ \E w \in WindowSizes : E = initEditor(w[1], w[2])
    /\ F = FindStatics0
    /\ quit_times = SIMPAD_QUIT_TIMES
    /\ prompt = NoPrompt
    /\ findSaved = NoSaved
    /\ pc = "main"
    /\ tty = [cursor |-> "shown"]

Init ==
    /\ EdInit
    /\ rk = RkIdle
    /\ h = HIdle

(***************************************************************************)
(* main (lines 1027-1041)                                                  *)
(***************************************************************************)
HelpMsg == "HELP: Ctrl-Q = quit | Ctrl-S = save | Ctrl-F = find"

\* argc >= 2 and fopen succeeds on argv[1], the file f = <<name, bytes>>.
MainOpenFile(f) ==
    /\ pc = "main"
    /\ LET E1 == editorSetStatusMessage(editorOpen(E, f[1], f[2]), HelpMsg, <<>>)
       IN  Bounded(E1) /\ E' = E1
    /\ pc' = "refresh"
    /\ UNCHANGED <<F, quit_times, prompt, findSaved, rk, tty>>

MainOpen == \E f \in StartFiles : MainOpenFile(f)

\* argc >= 2 and fopen fails: die("fopen").
MainOpenFails ==
    /\ pc = "main"
    /\ pc' = "exit1"
    /\ UNCHANGED <<E, F, quit_times, prompt, findSaved, rk, tty>>

MainNoArg ==
    /\ pc = "main"
    /\ E' = editorSetStatusMessage(E, HelpMsg, <<>>)
    /\ pc' = "refresh"
    /\ UNCHANGED <<F, quit_times, prompt, findSaved, rk, tty>>

(***************************************************************************)
(* editorRefreshScreen (lines 789-816), called by the loop of main and by  *)
(* the loop of editorPrompt, which first sets the prompt as the message.   *)
(***************************************************************************)
PromptFormat(kind) ==
    IF kind = "find" THEN "Search: %s (Use ESC/Arrows/Enter)"
    ELSE "Save as: %s (ESC to cancel)"

Refresh ==
    /\ pc = "refresh"
    /\ E' = editorScroll(IF prompt.kind = "none" THEN E
                         ELSE editorSetStatusMessage(E, PromptFormat(prompt.kind),
                                                     prompt.buffer))
    /\ \E fresh \in BOOLEAN : \E ab \in {Frame(E', fresh)} : tty' = Written(tty, ab)
    /\ pc' = "key"
    /\ UNCHANGED <<F, quit_times, prompt, findSaved, rk>>

(***************************************************************************)
(* editorProcessKeypress (lines 913-999): one action per case of the       *)
(* switch, enabled when the loop of main is at its editorReadKey and no    *)
(* prompt is open.  c is the key editorReadKey returned.                   *)
(***************************************************************************)
AtKey == pc = "key" /\ prompt.kind = "none"

\* editorProcessKeypress without its last line: quit_times is left as it is.
Done_KeepsQuitTimes(E1) ==
    /\ Bounded(E1)
    /\ E' = E1
    /\ pc' = "refresh"
    /\ UNCHANGED <<F, quit_times, prompt, findSaved, rk, tty>>

\* The case ends with break: quit_times is reset and main loops.
Done(E1) ==
    /\ Bounded(E1)
    /\ E' = E1
    /\ quit_times' = SIMPAD_QUIT_TIMES
    /\ pc' = "refresh"
    /\ UNCHANGED <<F, prompt, findSaved, rk, tty>>

\* A read through a row pointer past E.row may end the process.
Segv ==
    /\ pc' = "segv"
    /\ UNCHANGED <<E, F, quit_times, prompt, findSaved, rk, tty>>

\* A write through a row pointer past E.row is undefined: the process is
\* killed, or it goes on with memory it does not own overwritten, where this
\* model stops following it.
Undefined ==
    /\ pc' \in {"segv", "corrupt"}
    /\ UNCHANGED <<E, F, quit_times, prompt, findSaved, rk, tty>>

KeyNewline ==
    /\ AtKey
    \* with cursorX /= 0 the cursor is on a row (editorMoveCursor, line 907)
    /\ Done(editorInsertNewline(E))

WarningMsg == "WARNING - File has unsaved changes. Press Ctrl-Q again to quit."

KeyQuit ==
    /\ AtKey
    /\ \/ /\ E.changed /= 0 /\ quit_times > 0
          /\ E' = editorSetStatusMessage(E, WarningMsg, <<>>)
          /\ quit_times' = quit_times - 1
          /\ pc' = "refresh"
          /\ UNCHANGED <<F, prompt, findSaved, rk, tty>>
       \/ /\ ~(E.changed /= 0 /\ quit_times > 0)
          /\ pc' = "exit0"
          /\ UNCHANGED <<E, F, quit_times, prompt, findSaved, rk, tty>>

\* What open, ftruncate and write of editorSave may do.
SaveOutcomes == {"ok", "open", "ftruncate", "write"}

\* editorSave taking every outcome for a success.
SaveTo_AlwaysClean(E1, outcome) ==
    [editorSetStatusMessage(E1, "%d bytes written to disk",
                            <<Len(editorRowsToString(E1))>>)
        EXCEPT !.changed = 0]

\* editorSave from line 520 on, with the file name set.
SaveTo(E1, outcome) ==
    IF outcome = "ok"
    THEN [editorSetStatusMessage(E1, "%d bytes written to disk",
                                 <<Len(editorRowsToString(E1))>>)
             EXCEPT !.changed = 0]
    ELSE editorSetStatusMessage(E1, "Can't save! I/O error: %s", <<>>)

\* case CTRL_KEY('s') with E.fileName set: editorSave runs to its end.
KeySaveNamed(outcome) ==
    /\ AtKey
    /\ E.fileName /= NULL
    /\ Done(SaveTo(E, outcome))

\* case CTRL_KEY('s') with no E.fileName: editorSave opens its prompt.
KeySaveAs ==
    /\ AtKey
    /\ E.fileName = NULL
    /\ prompt' = [kind |-> "saveas", buffer |-> <<>>]
    /\ pc' = "refresh"
    /\ UNCHANGED <<E, F, quit_times, findSaved, rk, tty>>

KeySave == KeySaveAs \/ \E outcome \in SaveOutcomes : KeySaveNamed(outcome)

KeyHome ==
    /\ AtKey
    /\ Done([E EXCEPT !.cursorX = 0])

KeyEnd ==
    /\ AtKey
    /\ Done(IF E.cursorY < E.numRows
            THEN [E EXCEPT !.cursorX = E.row[E.cursorY + 1].size]
            ELSE E)

\* editorFind up to the first iteration of editorPrompt.
KeyFind ==
    /\ AtKey
    /\ findSaved' = [cursorX |-> E.cursorX, cursorY |-> E.cursorY,
                     colOffset |-> E.colOffset, rowOffset |-> E.rowOffset]
    /\ prompt' = [kind |-> "find", buffer |-> <<>>]
    /\ pc' = "refresh"
    /\ UNCHANGED <<E, F, quit_times, rk, tty>>

\* case BACKSPACE, CTRL_KEY('h'), DEL_KEY
KeyDeleteC(c) ==
    /\ AtKey
    /\ LET E1 == IF c = DEL_KEY THEN editorMoveCursor(E, ARROW_RIGHT) ELSE E
       IN  \/ /\ E1.cursorY <= E1.numRows
              /\ Done(editorDeleteCharacter(E1))
           \/ /\ E1.cursorY > E1.numRows
              \* editorRowAppendString(&E.row[E.cursorY - 1], ...) past the array
              /\ Undefined

KeyDelete == \E c \in {BACKSPACE, CTRL_KEY(104), DEL_KEY} : KeyDeleteC(c)

KeyPage ==
    /\ AtKey
    /\ \E c \in {PAGE_UP, PAGE_DOWN} : Done(PageMove(E, c))

Arrows == {ARROW_UP, ARROW_DOWN, ARROW_LEFT, ARROW_RIGHT}

KeyArrowC(c) ==
    /\ AtKey
    /\ \/ /\ ~MoveReadsPastRows(E, c)
          /\ Done(editorMoveCursor(E, c))
       \/ /\ MoveReadsPastRows(E, c)
          /\ \/ Segv
             \/ Done(editorMoveCursor(E, c))

KeyArrow == \E c \in Arrows : KeyArrowC(c)

\* case CTRL_KEY('l'), case '\x1b'
KeyNoop ==
    /\ AtKey
    /\ Done(E)

\* default: editorInsertCharacter(c)
KeyInsertC(c) ==
    /\ AtKey
    /\ \/ /\ E.cursorY <= E.numRows
          /\ Done(editorInsertCharacter(E, c))
       \/ /\ E.cursorY > E.numRows
          \* editorRowInsertCharacter(&E.row[E.cursorY], ...) past the array
          /\ Undefined

KeyInsert == \E c \in InsertChars : KeyInsertC(c)

(***************************************************************************)
(* editorPrompt (lines 830-873): one action per branch of its loop body,   *)
(* with what its caller (editorFind, editorSave) does when it returns.     *)
(***************************************************************************)
AtPromptKey == pc = "key" /\ prompt.kind /= "none"

iscntrl(c) == c < 32 \/ c = 127

\* if (callback) callback(buffer, c): editorFind passes editorFindCallback,
\* editorSave passes NULL.
Callback(E1, buffer, c) ==
    IF prompt.kind = "find"
    THEN editorFindCallback([E |-> E1, F |-> F], buffer, c)
    ELSE [E |-> E1, F |-> F]

\* The loop of editorPrompt goes round.
PromptLoops(S, buffer) ==
    /\ E' = S.E
    /\ F' = S.F
    /\ prompt' = [prompt EXCEPT !.buffer = buffer]
    /\ pc' = "refresh"
    /\ UNCHANGED <<quit_times, findSaved, rk, tty>>

\* editorPrompt returns, its caller finishes leaving E1 (its locals end
\* with it) and editorProcessKeypress resets quit_times.
PromptReturns(S, E1) ==
    /\ E' = E1
    /\ F' = S.F
    /\ prompt' = NoPrompt
    /\ findSaved' = NoSaved
    /\ quit_times' = SIMPAD_QUIT_TIMES
    /\ pc' = "refresh"
    /\ UNCHANGED <<rk, tty>>

\* c == DEL_KEY || c == CTRL_KEY('h') || c == BACKSPACE
PromptEraseC(c) ==
    /\ AtPromptKey
    /\ LET buffer == IF Len(prompt.buffer) /= 0
                     THEN SubSeq(prompt.buffer, 1, Len(prompt.buffer) - 1)
                     ELSE prompt.buffer
       IN  PromptLoops(Callback(E, buffer, c), buffer)

PromptErase == \E c \in {DEL_KEY, CTRL_KEY(104), BACKSPACE} : PromptEraseC(c)

\* editorFind without its else branch: Escape restores nothing.
PromptEscape_NoRestore ==
    /\ AtPromptKey
    /\ LET S == Callback(editorSetStatusMessage(E, "", <<>>), prompt.buffer, ESC)
       IN  IF prompt.kind = "find"
           THEN PromptReturns(S, S.E)
           ELSE PromptReturns(S, editorSetStatusMessage(
                                     [S.E EXCEPT !.fileName = NULL],
                                     "Save aborted!", <<>>))

PromptEscape ==
    /\ AtPromptKey
    /\ LET S == Callback(editorSetStatusMessage(E, "", <<>>), prompt.buffer, ESC)
       IN  IF prompt.kind = "find"
           THEN PromptReturns(S, [S.E EXCEPT !.cursorX = findSaved.cursorX,
                                             !.cursorY = findSaved.cursorY,
                                             !.colOffset = findSaved.colOffset,
                                             !.rowOffset = findSaved.rowOffset])
           ELSE PromptReturns(S, editorSetStatusMessage(
                                     [S.E EXCEPT !.fileName = NULL],
                                     "Save aborted!", <<>>))

\* c == '\r'; outcome is what the save that follows a file name meets.
PromptEnterWith(outcome) ==
    /\ AtPromptKey
    /\ \/ /\ Len(prompt.buffer) /= 0
          /\ LET S == Callback(editorSetStatusMessage(E, "", <<>>), prompt.buffer, CR)
             IN  IF prompt.kind = "find"
                 THEN PromptReturns(S, S.E)
                 ELSE PromptReturns(S, SaveTo([S.E EXCEPT !.fileName = prompt.buffer],
                                              outcome))
       \/ /\ Len(prompt.buffer) = 0
          /\ PromptLoops(Callback(E, prompt.buffer, CR), prompt.buffer)

PromptEnter == \E outcome \in SaveOutcomes : PromptEnterWith(outcome)

\* The keys the model feeds a prompt besides the ones above.
PromptKeys == InsertChars \cup Arrows

\* !iscntrl(c) && c < 128: c is appended to the buffer.
PromptCharC(c) ==
    /\ AtPromptKey
    /\ ~iscntrl(c) /\ c < 128
    /\ Len(prompt.buffer) < Limit.buf
    /\ LET buffer == Append(prompt.buffer, c)
       IN  PromptLoops(Callback(E, buffer, c), buffer)

PromptChar == \E c \in PromptKeys : PromptCharC(c)

\* Any other key only reaches the callback.
PromptOtherC(c) ==
    /\ AtPromptKey
    /\ c \notin {DEL_KEY, CTRL_KEY(104), BACKSPACE, ESC, CR}
    /\ ~(~iscntrl(c) /\ c < 128)
    /\ PromptLoops(Callback(E, prompt.buffer, c), prompt.buffer)

PromptOther == \E c \in PromptKeys : PromptOtherC(c)

(***************************************************************************)
(* The editor: main, then its loop.                                        *)
(***************************************************************************)
Next ==
    \/ MainOpen /\ UNCHANGED h
    \/ MainOpenFails /\ UNCHANGED h
    \/ MainNoArg /\ UNCHANGED h
    \/ Refresh /\ UNCHANGED h
    \/ KeyNewline /\ UNCHANGED h
    \/ KeyQuit /\ UNCHANGED h
    \/ KeySave /\ UNCHANGED h
    \/ KeyHome /\ UNCHANGED h
    \/ KeyEnd /\ UNCHANGED h
    \/ KeyFind /\ UNCHANGED h
    \/ KeyDelete /\ UNCHANGED h
    \/ KeyPage /\ UNCHANGED h
    \/ KeyArrow /\ UNCHANGED h
    \/ KeyNoop /\ UNCHANGED h
    \/ KeyInsert /\ UNCHANGED h
    \/ PromptErase /\ UNCHANGED h
    \/ PromptEscape /\ UNCHANGED h
    \/ PromptEnter /\ UNCHANGED h
    \/ PromptChar /\ UNCHANGED h
    \/ PromptOther /\ UNCHANGED h

Spec == Init /\ [][Next]_vars

(***************************************************************************)
(* The row functions on their own: a row of every content up to MaxRowLen  *)
(* bytes is built as editorInsertRow builds it, and a column of it is      *)
(* mapped to its render column and back.                                   *)
(***************************************************************************)
RowChars == {97, 49, TAB}

SeqsUpTo(S, n) == UNION {[1..k -> S] : k \in 0..n}

InitRow ==
    /\ EdInit
    /\ rk = RkIdle
    /\ \E chars \in SeqsUpTo(RowChars, MaxRowLen) : \E x \in 0..Len(chars) :
          h = [step |-> "call", in |-> [chars |-> chars, x |-> x], out |-> <<>>]

RowCall ==
    /\ h.step = "call"
    /\ LET row == NewRow(h.in.chars)
           renderX == editorRowCursorXToRenderX(row, h.in.x)
       IN  h' = [h EXCEPT !.step = "ret",
                          !.out = [row |-> row, renderX |-> renderX,
                                   cursorX |-> editorRowRenderXToCursorX(row, renderX)]]
    /\ UNCHANGED <<E, F, quit_times, prompt, findSaved, pc, rk, tty>>

NextRow == RowCall

SpecRow == InitRow /\ [][NextRow]_vars

(***************************************************************************)
(* Insert then delete: the editor is started on a document, the cursor is  *)
(* moved anywhere, a byte is typed or Enter pressed, and Backspace follows *)
(* at once.  h.in keeps the editor state the first of the two keys found.  *)
(***************************************************************************)
\* "a\tb\n\n1\n": rows "a\tb", "" and "1".
PairFiles == {<< <<112>>, <<97, TAB, 98, LF, LF, 49, LF>> >>}

PairChars == {97, TAB}

InitPair ==
    /\ EdInit
    /\ rk = RkIdle
    /\ h = [step |-> "move", in |-> <<>>, out |-> <<>>]

PairOpen == (\E f \in PairFiles : MainOpenFile(f)) /\ UNCHANGED h

PairNoArg == MainNoArg /\ UNCHANGED h

PairRefresh == Refresh /\ UNCHANGED h

PairMove == h.step = "move" /\ KeyArrow /\ UNCHANGED h

PairInsert ==
    /\ h.step = "move"
    /\ \E c \in PairChars : KeyInsertC(c)
    /\ h' = [h EXCEPT !.step = "insert", !.in = E]

PairNewline ==
    /\ h.step = "move"
    /\ KeyNewline
    /\ h' = [h EXCEPT !.step = "newline", !.in = E]

PairDelete ==
    /\ h.step \in {"insert", "newline"}
    /\ \E c \in {BACKSPACE, CTRL_KEY(104)} : KeyDeleteC(c)
    /\ h' = [h EXCEPT !.step = IF h.step = "insert" THEN "insert_delete"
                               ELSE "newline_delete"]

NextPair ==
    \/ PairOpen \/ PairNoArg \/ PairRefresh \/ PairMove
    \/ PairInsert \/ PairNewline \/ PairDelete

SpecPair == InitPair /\ [][NextPair]_vars

(***************************************************************************)
(* One search: the editor is started on a document, Ctrl-F opens the find  *)
(* prompt and keys are fed to it.  h.in logs each key the prompt reads     *)
(* with the lastMatch its callback leaves.                                 *)
(***************************************************************************)
\* "foo\nbar\nfoobar\n" and "\tof\nfo\n".
FindFiles ==
    {<< <<102>>, <<102, 111, 111, LF, 98, 97, 114, LF,
                   102, 111, 111, 98, 97, 114, LF>> >>,
     << <<111>>, <<TAB, 111, 102, LF, 102, 111, LF>> >>}

FindChars == {102, 111}

FindArrows == {ARROW_RIGHT, ARROW_DOWN, ARROW_LEFT}

MaxKeys == 5

InitFind ==
    /\ EdInit
    /\ rk = RkIdle
    /\ h = [step |-> "find", in |-> <<>>, out |-> <<>>]

Logged(c) ==
    /\ Len(h.in) < MaxKeys
    /\ h' = [h EXCEPT !.in = Append(h.in, <<c, F'.lastMatch>>)]

FindOpen == (\E f \in FindFiles : MainOpenFile(f)) /\ UNCHANGED h

FindRefresh == Refresh /\ UNCHANGED h

FindStart == h.in = <<>> /\ KeyFind /\ UNCHANGED h

FindType == \E c \in FindChars : PromptCharC(c) /\ Logged(c)

FindArrow == \E c \in FindArrows : PromptOtherC(c) /\ Logged(c)

FindErase == PromptEraseC(BACKSPACE) /\ Logged(BACKSPACE)

FindEscape == PromptEscape /\ Logged(ESC)

FindEnter == PromptEnter /\ Logged(CR)

NextFind ==
    \/ FindOpen \/ FindRefresh \/ FindStart
    \/ FindType \/ FindArrow \/ FindErase \/ FindEscape \/ FindEnter

SpecFind == InitFind /\ [][NextFind]_vars

(***************************************************************************)
(* editorReadKey read by read (simpad.c 135-196): rk.pc is the read the    *)
(* call is at, rk.c and rk.seq the bytes it has, rk.key what it returns.   *)
(* rk.waits counts the first reads that brought no byte and rk.cut tells   *)
(* that a later read brought none.                                         *)
(***************************************************************************)
\* ESC, '[', 'O', 'A'-'F', 'H', '0'-'9', '~' and 'a'.
KeyBytes == {ESC, 91, 79, 126, 97} \cup (65..70) \cup {72} \cup (48..57)

\* What read(STDIN_FILENO, &c, 1) returns under VMIN 0, VTIME 1: one byte,
\* 0 after the timeout, or -1 with errno set.
ReadOutcomes ==
    {[n |-> 1, b |-> b, errno |-> "none"] : b \in KeyBytes}
    \cup {[n |-> 0, b |-> 0, errno |-> "none"],
          [n |-> -1, b |-> 0, errno |-> "EAGAIN"],
          [n |-> -1, b |-> 0, errno |-> "EIO"]}

MaxWaits == 2

\* switch (seq[1]) of lines 161-169, falling out to return '\x1b'.
CsiTilde_NoSeven(d) ==
    CASE d = 49 -> HOME_KEY
      [] d = 51 -> DEL_KEY
      [] d = 52 -> END_KEY
      [] d = 53 -> PAGE_UP
      [] d = 54 -> PAGE_DOWN
      [] d = 56 -> END_KEY
      [] OTHER -> ESC

CsiTilde(d) ==
    CASE d = 49 -> HOME_KEY
      [] d = 51 -> DEL_KEY
      [] d = 52 -> END_KEY
      [] d = 53 -> PAGE_UP
      [] d = 54 -> PAGE_DOWN
      [] d = 55 -> HOME_KEY
      [] d = 56 -> END_KEY
      [] OTHER -> ESC

\* switch (seq[1]) of lines 174-181.
CsiLetter(l) ==
    CASE l = 65 -> ARROW_UP
      [] l = 66 -> ARROW_DOWN
      [] l = 67 -> ARROW_RIGHT
      [] l = 68 -> ARROW_LEFT
      [] l = 72 -> HOME_KEY
      [] l = 70 -> END_KEY
      [] OTHER -> ESC

\* switch (seq[1]) of lines 185-188.
Ss3Letter(l) ==
    CASE l = 72 -> HOME_KEY
      [] l = 70 -> END_KEY
      [] OTHER -> ESC

Returns(r, key) == [r EXCEPT !.pc = "ret", !.key = key]

\* A first read that brings no byte returns to the caller.
ReadFirst_Tick(r, o) ==
    IF o.n = 1
    THEN IF o.b = ESC THEN [r EXCEPT !.c = o.b, !.pc = "read1"]
         ELSE Returns([r EXCEPT !.c = o.b], o.b)
    ELSE IF o.n = -1 /\ o.errno /= "EAGAIN" THEN [r EXCEPT !.pc = "die"]
    ELSE Returns([r EXCEPT !.waits = r.waits + 1], 0)

\* The while of lines 139-143 and the test of line 144.
ReadFirst(r, o) ==
    IF o.n = 1
    THEN IF o.b = ESC THEN [r EXCEPT !.c = o.b, !.pc = "read1"]
         ELSE Returns([r EXCEPT !.c = o.b], o.b)
    ELSE IF o.n = -1 /\ o.errno /= "EAGAIN" THEN [r EXCEPT !.pc = "die"]
    ELSE [r EXCEPT !.waits = r.waits + 1]

\* A read of lines 148, 151 or 156 that is not 1: return '\x1b'.
CutShort(r) == Returns([r EXCEPT !.cut = TRUE], ESC)

InitKey ==
    /\ EdInit
    /\ rk = [RkIdle EXCEPT !.pc = "read0"]
    /\ h = [step |-> "key", in |-> <<>>, out |-> <<>>]

RkRead0 ==
    /\ rk.pc = "read0"
    /\ \E o \in ReadOutcomes :
          /\ (o.n /= 1 /\ ~(o.n = -1 /\ o.errno /= "EAGAIN")) => rk.waits < MaxWaits
          /\ rk' = ReadFirst(rk, o)
    /\ UNCHANGED <<E, F, quit_times, prompt, findSaved, pc, h, tty>>

RkRead1 ==
    /\ rk.pc = "read1"
    /\ \E o \in ReadOutcomes :
          rk' = IF o.n /= 1 THEN CutShort(rk)
                ELSE [rk EXCEPT !.seq = <<o.b>>, !.pc = "read2"]
    /\ UNCHANGED <<E, F, quit_times, prompt, findSaved, pc, h, tty>>

RkRead2 ==
    /\ rk.pc = "read2"
    /\ \E o \in ReadOutcomes :
          rk' = IF o.n /= 1 THEN CutShort(rk)
                ELSE LET r == [rk EXCEPT !.seq = Append(rk.seq, o.b)]
                     IN  IF r.seq[1] = 91
                         THEN IF r.seq[2] >= 48 /\ r.seq[2] <= 57
                              THEN [r EXCEPT !.pc = "read3"]
                              ELSE Returns(r, CsiLetter(r.seq[2]))
                         ELSE IF r.seq[1] = 79
                         THEN Returns(r, Ss3Letter(r.seq[2]))
                         ELSE Returns(r, ESC)
    /\ UNCHANGED <<E, F, quit_times, prompt, findSaved, pc, h, tty>>

RkRead3 ==
    /\ rk.pc = "read3"
    /\ \E o \in ReadOutcomes :
          rk' = IF o.n /= 1 THEN CutShort(rk)
                ELSE LET r == [rk EXCEPT !.seq = Append(rk.seq, o.b)]
                     IN  IF r.seq[3] = 126
                         THEN Returns(r, CsiTilde(r.seq[2]))
                         ELSE Returns(r, ESC)
    /\ UNCHANGED <<E, F, quit_times, prompt, findSaved, pc, h, tty>>

NextKey == RkRead0 \/ RkRead1 \/ RkRead2 \/ RkRead3

SpecKey == InitKey /\ [][NextKey]_vars

(***************************************************************************)
(* Load and save: the editor is started on a file of any content up to     *)
(* MaxFileLen bytes and Ctrl-S follows with no edit between.  h.in is the  *)
(* content of the file, h.out the bytes editorSave hands to write.         *)
(***************************************************************************)
FileBytes == {97, TAB, LF, CR}

MaxFileLen == 4

\* "ab\tc\n\nlast\n"
ThreeLines == <<97, 98, TAB, 99, LF, LF, 108, 97, 115, 116, LF>>

FileContents == SeqsUpTo(FileBytes, MaxFileLen) \cup {ThreeLines}

InitFile ==
    /\ EdInit
    /\ rk = RkIdle
    /\ h = [step |-> "file", in |-> <<>>, out |-> <<>>]

FileOpen ==
    /\ \E bytes \in FileContents :
          /\ MainOpenFile(<< <<102>>, bytes >>)
          /\ h' = [h EXCEPT !.step = "open", !.in = bytes]

FileRefresh == Refresh /\ UNCHANGED h

FileSave ==
    /\ h.step = "open"
    /\ KeySave
    /\ h' = [h EXCEPT !.step = "saved", !.out = editorRowsToString(E)]

NextFile == FileOpen \/ FileRefresh \/ FileSave

SpecFile == InitFile /\ [][NextFile]_vars

(***************************************************************************)
(* Quitting: the editor of Spec with the keys counted.  h.in is the number *)
(* of Ctrl-Q keys read in a row up to now and h.out the editor state the   *)
(* first of them found.                                                    *)
(***************************************************************************)
InitQuit ==
    /\ EdInit
    /\ E.termCols = 10
    /\ rk = RkIdle
    /\ h = [step |-> "quit", in |-> 0, out |-> <<>>]

OtherKey == h' = [h EXCEPT !.in = 0, !.out = <<>>]

QuitStart == (MainOpen \/ MainNoArg) /\ UNCHANGED h

QuitRefresh == Refresh /\ UNCHANGED h

QuitKey ==
    /\ KeyQuit
    /\ h' = [h EXCEPT !.in = h.in + 1, !.out = IF h.in = 0 THEN E ELSE h.out]

QuitEditKey == (KeyNewline \/ KeyDelete \/ KeyInsert) /\ OtherKey

QuitMoveKey == (KeyHome \/ KeyEnd \/ KeyPage \/ KeyArrow \/ KeyNoop) /\ OtherKey

QuitCommandKey == (KeySave \/ KeyFind) /\ OtherKey

QuitPromptKey ==
    /\ PromptErase \/ PromptEscape \/ PromptEnter \/ PromptChar \/ PromptOther
    /\ OtherKey

NextQuit ==
    \/ QuitStart \/ QuitRefresh \/ QuitKey
    \/ QuitEditKey \/ QuitMoveKey \/ QuitCommandKey \/ QuitPromptKey

SpecQuit == InitQuit /\ [][NextQuit]_vars

(***************************************************************************)
(* Saving: a document is opened or started, edited, and Ctrl-S follows.    *)
(* h.in is the editor state Ctrl-S found and h.out what open, ftruncate    *)
(* and write met.                                                          *)
(***************************************************************************)
InitSave ==
    /\ EdInit
    /\ rk = RkIdle
    /\ h = [step |-> "edit", in |-> <<>>, out |-> <<>>]

SaveStart == (MainOpen \/ MainNoArg) /\ UNCHANGED h

SaveRefresh == Refresh /\ UNCHANGED h

SaveEdit ==
    /\ h.step = "edit"
    /\ KeyInsert \/ KeyNewline \/ KeyDeleteC(BACKSPACE)
    /\ UNCHANGED h

SaveNamed ==
    /\ h.step = "edit"
    /\ \E outcome \in SaveOutcomes :
          /\ KeySaveNamed(outcome)
          /\ h' = [step |-> "saved", in |-> E, out |-> outcome]

SaveAsk ==
    /\ h.step = "edit"
    /\ KeySaveAs
    /\ h' = [h EXCEPT !.step = "ask", !.in = E]

SaveAsType == h.step = "ask" /\ (PromptChar \/ PromptErase) /\ UNCHANGED h

SaveAsEnter ==
    /\ h.step = "ask"
    /\ \E outcome \in SaveOutcomes :
          /\ PromptEnterWith(outcome)
          /\ h' = IF prompt'.kind = "none"
                  THEN [h EXCEPT !.step = "saved", !.out = outcome]
                  ELSE h

SaveAsEscape ==
    /\ h.step = "ask"
    /\ PromptEscape
    /\ h' = [h EXCEPT !.step = "aborted"]

NextSave ==
    \/ SaveStart \/ SaveRefresh \/ SaveEdit \/ SaveNamed
    \/ SaveAsk \/ SaveAsType \/ SaveAsEnter \/ SaveAsEscape

SpecSave == InitSave /\ [][NextSave]_vars

(***************************************************************************)
(* A search from anywhere: the cursor is moved over a document, Ctrl-F     *)
(* opens the find prompt, keys are fed to it and Escape or Enter ends it.  *)
(* h.out is the editor state Ctrl-F found; h.in is the key read last and,  *)
(* once the prompt has ended, the state the ending key found.              *)
(***************************************************************************)
\* The documents of FindFiles and "1f\nf1\n".
EndFiles == FindFiles \cup {<< <<101>>, <<49, 102, LF, 102, 49, LF>> >>}

EndChars == FindChars \cup {49}

InitEnd ==
    /\ EdInit
    /\ rk = RkIdle
    /\ h = [step |-> "move", in |-> <<>>, out |-> <<>>]

EndOpen == (\E f \in EndFiles : MainOpenFile(f)) /\ UNCHANGED h

EndRefresh == Refresh /\ UNCHANGED h

EndMove == h.step = "move" /\ KeyArrow /\ UNCHANGED h

EndStart ==
    /\ h.step = "move"
    /\ KeyFind
    /\ h' = [step |-> "find", in |-> <<>>, out |-> E]

EndType ==
    /\ \E c \in EndChars : PromptCharC(c)
    /\ UNCHANGED h

EndArrow ==
    /\ \E c \in FindArrows : PromptOtherC(c)
    /\ UNCHANGED h

EndErase == PromptEraseC(BACKSPACE) /\ UNCHANGED h

EndEscape ==
    /\ PromptEscape
    /\ h' = [h EXCEPT !.step = "cancelled", !.in = [E |-> E, F |-> F]]

EndEnter ==
    /\ PromptEnter
    /\ h' = IF prompt'.kind = "none"
            THEN [h EXCEPT !.step = "accepted", !.in = [E |-> E, F |-> F]]
            ELSE h

NextEnd ==
    \/ EndOpen \/ EndRefresh \/ EndMove \/ EndStart
    \/ EndType \/ EndArrow \/ EndErase \/ EndEscape \/ EndEnter

SpecEnd == InitEnd /\ [][NextEnd]_vars

(***************************************************************************)
(* The row primitives called with any index: a document is loaded and one  *)
(* of editorInsertRow, editorDeleteRow, editorRowInsertCharacter and       *)
(* editorRowDeleteCharacter is called on it with an index from one below   *)
(* to one above its range.  h.in is the call: the state it found and its   *)
(* arguments.                                                              *)
(***************************************************************************)
OpsStrings == {<<>>, <<97, TAB>>}

InitOps ==
    /\ EdInit
    /\ rk = RkIdle
    /\ h = [step |-> "load", in |-> <<>>, out |-> <<>>]

OpsOpen == (\E f \in PairFiles : MainOpenFile(f)) /\ UNCHANGED h

OpsNoArg == MainNoArg /\ UNCHANGED h

OpsCalled(name, E1, args) ==
    /\ E' = E1
    /\ h' = [step |-> name, in |-> [E |-> E, args |-> args], out |-> <<>>]
    /\ UNCHANGED <<F, quit_times, prompt, findSaved, pc, rk, tty>>

OpsInsertRow ==
    /\ h.step = "load" /\ pc = "refresh"
    /\ \E at \in (-1)..(E.numRows + 1) : \E s \in OpsStrings :
          OpsCalled("editorInsertRow", editorInsertRow(E, at, s), <<at, s>>)

OpsDeleteRow ==
    /\ h.step = "load" /\ pc = "refresh"
    /\ \E at \in (-1)..(E.numRows + 1) :
          OpsCalled("editorDeleteRow", editorDeleteRow(E, at), <<at>>)

OpsRowInsertCharacter ==
    /\ h.step = "load" /\ pc = "refresh"
    /\ \E y \in 0..(E.numRows - 1) : \E at \in (-1)..(E.row[y + 1].size + 1) :
       \E c \in PairChars :
          OpsCalled("editorRowInsertCharacter",
                    editorRowInsertCharacter(E, y, at, c), <<y, at, c>>)

OpsRowDeleteCharacter ==
    /\ h.step = "load" /\ pc = "refresh"
    /\ \E y \in 0..(E.numRows - 1) : \E at \in (-1)..(E.row[y + 1].size + 1) :
          OpsCalled("editorRowDeleteCharacter",
                    editorRowDeleteCharacter(E, y, at), <<y, at>>)

NextOps ==
    \/ OpsOpen \/ OpsNoArg
    \/ OpsInsertRow \/ OpsDeleteRow \/ OpsRowInsertCharacter \/ OpsRowDeleteCharacter

SpecOps == InitOps /\ [][NextOps]_vars

(***************************************************************************)
(* editorUpdateSyntax on its own: a row with a given render content is     *)
(* highlighted.  h.in is the render content, h.out the row returned.       *)
(***************************************************************************)
SyntaxChars == {97, 49, 46, SPACE}

MaxRenderLen == 4

InitSyntax ==
    /\ EdInit
    /\ rk = RkIdle
    /\ \E render \in SeqsUpTo(SyntaxChars, MaxRenderLen) :
          h = [step |-> "call", in |-> render, out |-> <<>>]

SyntaxCall ==
    /\ h.step = "call"
    /\ h' = [h EXCEPT !.step = "ret",
                      !.out = editorUpdateSyntax([size |-> 0, chars |-> <<>>,
                                                  renderSize |-> Len(h.in),
                                                  render |-> h.in,
                                                  highlight |-> <<>>])]
    /\ UNCHANGED <<E, F, quit_times, prompt, findSaved, pc, rk, tty>>

NextSyntax == SyntaxCall

SpecSyntax == InitSyntax /\ [][NextSyntax]_vars

(***************************************************************************)
(* The find prompt with all four arrows: the scenario of SpecFind with Up  *)
(* among its keys.                                                         *)
(***************************************************************************)
BackArrow == \E c \in Arrows : PromptOtherC(c) /\ Logged(c)

NextBack ==
    \/ FindOpen \/ FindRefresh \/ FindStart
    \/ FindType \/ BackArrow \/ FindErase \/ FindEscape \/ FindEnter

SpecBack == InitFind /\ [][NextBack]_vars

(***************************************************************************)
(* One call of editorFindCallback: searches over a loaded or an empty      *)
(* document; h.in is the last call of the callback: the state it found,    *)
(* the query and the key it was given.                                     *)
(***************************************************************************)
InitCall ==
    /\ EdInit
    /\ rk = RkIdle
    /\ h = [step |-> "idle", in |-> <<>>, out |-> <<>>]

Called(c) ==
    h' = [step |-> "called",
          in |-> [E |-> E, F |-> F, key |-> c,
                  query |-> IF prompt'.kind = "find" THEN prompt'.buffer
                            ELSE prompt.buffer],
          out |-> <<>>]

CallOpen == (\E f \in FindFiles : MainOpenFile(f)) /\ UNCHANGED h

CallNoArg == MainNoArg /\ UNCHANGED h

CallRefresh == Refresh /\ UNCHANGED h

CallStart == KeyFind /\ UNCHANGED h

CallType == \E c \in FindChars : PromptCharC(c) /\ Called(c)

CallArrow == \E c \in FindArrows : PromptOtherC(c) /\ Called(c)

CallErase == PromptEraseC(BACKSPACE) /\ Called(BACKSPACE)

CallEscape == PromptEscape /\ Called(ESC)

CallEnter == PromptEnter /\ Called(CR)

NextCall ==
    \/ CallOpen \/ CallNoArg \/ CallRefresh \/ CallStart
    \/ CallType \/ CallArrow \/ CallErase \/ CallEscape \/ CallEnter

SpecCall == InitCall /\ [][NextCall]_vars

(***************************************************************************)
(* PROPERTIES                                                              *)
(***************************************************************************)
\* The raw content of the document, row by row.
RawRows(E1) == [i \in 1..Len(E1.row) |-> E1.row[i].chars]

\* C1: after any sequence of keys the cursor is on a row or on the line past
\* the last one (0 <= cursorY <= numRows), within the row if it is on one
\* (0 <= cursorX <= row[cursorY].size) and at column 0 otherwise.
C1_CursorInvariant ==
    /\ 0 <= E.cursorY /\ E.cursorY <= E.numRows
    /\ IF E.cursorY < E.numRows
       THEN 0 <= E.cursorX /\ E.cursorX <= E.row[E.cursorY + 1].size
       ELSE E.cursorX = 0

\* C2: after every editorScroll (the loop is at its editorReadKey) the cursor
\* is inside the window: rowOffset <= cursorY < rowOffset + visibleRows and
\* colOffset <= renderX < colOffset + visibleCols.
C2_CursorVisible ==
    pc = "key" =>
        /\ E.rowOffset <= E.cursorY /\ E.cursorY < E.rowOffset + E.termRows
        /\ E.colOffset <= E.renderX /\ E.renderX < E.colOffset + E.termCols

\* C2 witness: a frame drawn in the find prompt after a hit (which set
\* rowOffset to numRows), scrolled down and to the right.
C2_Witness ==
    /\ pc = "key"
    /\ prompt.kind = "find"
    /\ F.lastMatch >= 0
    /\ E.rowOffset > 0
    /\ E.colOffset > 0

TabColumns(chars) == {i \in 1..Len(chars) : chars[i] = TAB}

\* C3 (as stated): after editorUpdateRow the render length is the raw length
\* plus tabCount * (tabStop - 1).
C3_RenderLengthFixed ==
    h.step = "ret" =>
        h.out.row.renderSize
            = h.out.row.size + CountTabs(h.out.row.chars) * (SIMPAD_TAB_STOP - 1)

\* C3 (amended): after editorUpdateRow the render length is the render column
\* of the end of the row; it lies between the raw length and the raw length
\* plus tabCount * (tabStop - 1), and reaches that upper bound exactly when
\* every tab of the row starts on a render column that is a multiple of
\* tabStop.
C3_RenderLength ==
    h.step = "ret" =>
        LET row  == h.out.row
            most == row.size + CountTabs(row.chars) * (SIMPAD_TAB_STOP - 1)
        IN  /\ row.size = Len(h.in.chars) /\ row.chars = h.in.chars
            /\ row.renderSize = Len(row.render)
            /\ row.renderSize = editorRowCursorXToRenderX(row, row.size)
            /\ row.size <= row.renderSize /\ row.renderSize <= most
            /\ row.renderSize = most
                 <=> \A i \in TabColumns(row.chars) :
                        editorRowCursorXToRenderX(row, i - 1) % SIMPAD_TAB_STOP = 0

\* A row "a\t": the tab starts on column 1 and the row renders 8 wide.
C3_Witness ==
    /\ h.step = "ret"
    /\ h.out.row.chars = <<97, TAB>>
    /\ h.out.row.renderSize = SIMPAD_TAB_STOP

\* C4: for every row and every raw column x with 0 <= x <= row.size,
\* editorRowRenderXToCursorX(row, editorRowCursorXToRenderX(row, x)) = x.
C4_RoundTrip ==
    h.step = "ret" =>
        /\ h.in.x >= 0 /\ h.in.x <= h.out.row.size
        /\ h.out.renderX = editorRowCursorXToRenderX(h.out.row, h.in.x)
        /\ h.out.cursorX = h.in.x

\* The column after a tab that itself follows a byte: render column 8.
C4_Witness ==
    /\ h.step = "ret"
    /\ h.out.row.chars = <<97, TAB, 49>>
    /\ h.in.x = 2 /\ h.out.renderX = SIMPAD_TAB_STOP /\ h.out.cursorX = 2

\* C5 (as stated): from any valid cursor position, the line past the last row
\* included, insert-character then delete-character restores the rows (count
\* and raw content) and the cursor.
C5_InsertDeleteRestores ==
    h.step = "insert_delete" =>
        /\ E.numRows = h.in.numRows
        /\ RawRows(E) = RawRows(h.in)
        /\ E.cursorX = h.in.cursorX /\ E.cursorY = h.in.cursorY

\* C5 (amended): insert-character then delete-character restores the cursor
\* from every valid position and restores the rows when the cursor was on an
\* existing row; from the line past the last row the insert appends a row
\* that the delete empties but does not remove, so the document ends with
\* one more, empty, row.
C5_InsertDelete ==
    h.step = "insert_delete" =>
        /\ E.cursorX = h.in.cursorX /\ E.cursorY = h.in.cursorY
        /\ IF h.in.cursorY < h.in.numRows
           THEN E.numRows = h.in.numRows /\ RawRows(E) = RawRows(h.in)
           ELSE /\ E.numRows = h.in.numRows + 1
                /\ RawRows(E) = Append(RawRows(h.in), <<>>)

\* A byte typed and erased in the middle of a row that holds a tab.
C5_Witness ==
    /\ h.step = "insert_delete"
    /\ h.in.cursorY < h.in.numRows
    /\ h.in.cursorX > 0
    /\ h.in.cursorX < h.in.row[h.in.cursorY + 1].size
    /\ TabColumns(h.in.row[h.in.cursorY + 1].chars) /= {}

\* C6: with the cursor at column 0 of an existing row, insert-newline then
\* delete-character leaves the number of rows and every row's raw content
\* unchanged and the cursor back at column 0 of the original row.
C6_NewlineDelete ==
    (h.step = "newline_delete" /\ h.in.cursorX = 0 /\ h.in.cursorY < h.in.numRows) =>
        /\ E.numRows = h.in.numRows
        /\ RawRows(E) = RawRows(h.in)
        /\ E.cursorX = 0 /\ E.cursorY = h.in.cursorY

\* Enter and Backspace at the start of a non-empty row that is not the first.
C6_Witness ==
    /\ h.step = "newline_delete"
    /\ h.in.cursorX = 0 /\ h.in.cursorY > 0 /\ h.in.cursorY < h.in.numRows
    /\ h.in.row[h.in.cursorY + 1].size > 0
    /\ E.cursorX = 0 /\ E.cursorY = h.in.cursorY

LogKeys == [i \in 1..Len(h.in) |-> h.in[i][1]]

\* The rows whose render form holds the query.
Matches(E1, query) ==
    {y \in 0..(E1.numRows - 1) :
        \E k \in 0..E1.row[y + 1].renderSize : IsAt(E1.row[y + 1].render, query, k)}

\* The first of the rows M after row last, or the first of M when none is.
NextMatch(M, last) ==
    IF M = {} THEN -1
    ELSE LET after == {m \in M : m > last}
             from == IF after = {} THEN M ELSE after
         IN  CHOOSE m \in from : \A n \in from : m <= n

FooRows == << <<102, 111, 111>>, <<98, 97, 114>>, <<102, 111, 111, 98, 97, 114>> >>

\* C7: a forward search (Right or Down in the find prompt) moves to the
\* first matching row after the previous match, wrapping from the last
\* matching row to the first; with rows "foo", "bar", "foobar" and query
\* "foo" the cursor row is 0 after the query is typed, 2 after the next
\* forward search and 0 after the one after that.
C7_ForwardSearchWraps ==
    (prompt.kind = "find" /\ pc = "refresh" /\ Len(h.in) >= 1) =>
        LET n == Len(h.in)
            key == h.in[n][1]
            last == IF n = 1 THEN -1 ELSE h.in[n - 1][2]
            fwd == {ARROW_RIGHT, ARROW_DOWN}
        IN  /\ key \in fwd =>
                /\ F.lastMatch = NextMatch(Matches(E, prompt.buffer), last)
                /\ F.lastMatch /= -1 => E.cursorY = F.lastMatch
            /\ (RawRows(E) = FooRows /\ n >= 3 /\ SubSeq(LogKeys, 1, 3) = <<102, 111, 111>>) =>
                /\ n = 3 => E.cursorY = 0
                /\ (n = 4 /\ key \in fwd) => E.cursorY = 2
                /\ (n = 5 /\ key \in fwd /\ h.in[4][1] \in fwd) => E.cursorY = 0

\* "foo" typed, then Right and Down: the search is back on row 0 from row 2.
C7_Witness ==
    /\ prompt.kind = "find" /\ pc = "refresh"
    /\ RawRows(E) = FooRows
    /\ LogKeys = <<102, 111, 111, ARROW_RIGHT, ARROW_DOWN>>
    /\ h.in[4][2] = 2 /\ F.lastMatch = 0 /\ E.cursorY = 0

\* The event the decode table gives the bytes read after ESC.
DecodeTable(seq) ==
    IF Len(seq) = 2 /\ seq[1] = 91 /\ seq[2] \in {65, 66, 67, 68, 72, 70}
    THEN CASE seq[2] = 65 -> ARROW_UP
           [] seq[2] = 66 -> ARROW_DOWN
           [] seq[2] = 67 -> ARROW_RIGHT
           [] seq[2] = 68 -> ARROW_LEFT
           [] seq[2] = 72 -> HOME_KEY
           [] seq[2] = 70 -> END_KEY
    ELSE IF Len(seq) = 3 /\ seq[1] = 91 /\ seq[3] = 126
            /\ seq[2] \in {49, 51, 52, 53, 54, 55, 56}
    THEN CASE seq[2] \in {49, 55} -> HOME_KEY
           [] seq[2] = 51 -> DEL_KEY
           [] seq[2] \in {52, 56} -> END_KEY
           [] seq[2] = 53 -> PAGE_UP
           [] seq[2] = 54 -> PAGE_DOWN
    ELSE IF Len(seq) = 2 /\ seq[1] = 79 /\ seq[2] \in {72, 70}
    THEN (IF seq[2] = 72 THEN HOME_KEY ELSE END_KEY)
    ELSE ESC

\* C8: editorReadKey maps every byte sequence that starts with ESC to one
\* event: ESC [ A/B/C/D/H/F to Up/Down/Right/Left/Home/End, ESC [ d ~ to
\* Home (1, 7), Delete (3), End (4, 8), PageUp (5), PageDown (6), ESC O H/F
\* to Home/End; every other pattern and every sequence cut short by a read
\* that brings no byte gives a bare Escape.
C8_DecodeTable ==
    (rk.pc = "ret" /\ rk.c = ESC) =>
        /\ rk.key = DecodeTable(rk.seq)
        /\ rk.cut => rk.key = ESC

\* ESC [ 7 ~ read in full and returned as Home.
C8_Witness ==
    /\ rk.pc = "ret" /\ rk.c = ESC /\ ~rk.cut
    /\ rk.seq = <<91, 55, 126>>
    /\ rk.key = HOME_KEY

\* C9 (as stated): when a read brings no byte within the timeout,
\* editorReadKey gives a tick back to the main loop and does not wait for a
\* key.
C9_TimeoutYieldsTick == rk.waits > 0 => rk.pc /= "read0"

\* C9 (amended): every read is bounded by the terminal's timeout, but
\* editorReadKey repeats its first read until a byte arrives (or dies on a
\* read error other than EAGAIN) and returns nothing to the main loop
\* meanwhile; once the first byte is in it returns after at most three more
\* reads, and a later read that brings no byte makes it return a bare
\* Escape.
C9_WaitsForFirstByte ==
    /\ rk.pc = "ret" => rk.c \in KeyBytes
    /\ (rk.waits > 0 /\ rk.c = 0) => rk.pc \in {"read0", "die"}
    /\ rk.pc \in {"read1", "read2", "read3"} => (rk.c = ESC /\ ~rk.cut)
    /\ Len(rk.seq) <= 3
    /\ rk.cut => (rk.pc = "ret" /\ rk.key = ESC)

\* Two first reads timed out, editorReadKey is still at its first read.
C9_Witness == rk.pc = "read0" /\ rk.waits = MaxWaits /\ rk.c = 0

RECURSIVE JoinLF(_)
JoinLF(rows) ==
    IF rows = <<>> THEN <<>> ELSE Head(rows) \o <<LF>> \o JoinLF(Tail(rows))

\* A file of lines without CR, each ended by one LF.
LFEnded(bytes) ==
    /\ \A i \in 1..Len(bytes) : bytes[i] /= CR
    /\ bytes = <<>> \/ bytes[Len(bytes)] = LF

\* C10: loading lines and producing the bytes to save with no edit gives
\* each row's raw content followed by one LF, in row order; a file whose
\* lines hold no line terminator and end in one LF each is loaded as one row
\* per line and reproduced byte for byte, tabs stored raw.
C10_LoadSaveRoundTrip ==
    h.step = "saved" =>
        /\ h.out = JoinLF(RawRows(E))
        /\ LFEnded(h.in) =>
              /\ h.out = h.in
              /\ E.numRows = Cardinality({i \in 1..Len(h.in) : h.in[i] = LF})
              /\ \A y \in 1..E.numRows : LF \notin {E.row[y].chars[i] : i \in 1..E.row[y].size}

\* The file "ab\tc", "", "last" saved as it was loaded.
C10_Witness ==
    /\ h.step = "saved"
    /\ h.in = ThreeLines
    /\ E.numRows = 3
    /\ h.out = ThreeLines

\* C11: a modified document exits only on the (SIMPAD_QUIT_TIMES + 1)th
\* Ctrl-Q in a row; each earlier one only sets the warning message and
\* counts quit_times down; any other key puts quit_times back; an
\* unmodified document exits on the first Ctrl-Q.
C11_QuitCountdown ==
    /\ pc = "exit0" =>
          IF E.changed = 0 THEN h.in = 1 ELSE h.in = SIMPAD_QUIT_TIMES + 1
    /\ (pc \in {"refresh", "key"} /\ h.in >= 1) =>
          /\ h.in <= SIMPAD_QUIT_TIMES
          /\ E.changed /= 0
          /\ quit_times = SIMPAD_QUIT_TIMES - h.in
          /\ E.statusMsg = Msg(WarningMsg, <<>>)
          /\ E = [h.out EXCEPT !.statusMsg = Msg(WarningMsg, <<>>)]
    /\ (pc \in {"refresh", "key"} /\ h.in = 0 /\ prompt.kind = "none") =>
          quit_times = SIMPAD_QUIT_TIMES

\* A modified document left by the second Ctrl-Q in a row.
C11_Witness ==
    /\ pc = "exit0"
    /\ E.changed /= 0
    /\ h.in = SIMPAD_QUIT_TIMES + 1
    /\ E.statusMsg = Msg(WarningMsg, <<>>)

\* C12: a save whose open, ftruncate or write fails leaves every row and
\* the modified counter as they were and sets the error message; only a
\* save that succeeds puts the modified counter to 0.
C12_SaveFailureKeepsChanged ==
    h.step = "saved" =>
        /\ E.numRows = h.in.numRows
        /\ E.row = h.in.row
        /\ IF h.out = "ok"
           THEN /\ E.changed = 0
                /\ E.statusMsg = Msg("%d bytes written to disk",
                                     <<Len(JoinLF(RawRows(h.in)))>>)
           ELSE /\ E.changed = h.in.changed
                /\ E.statusMsg = Msg("Can't save! I/O error: %s", <<>>)

\* A write that fails on a modified document of two rows.
C12_Witness ==
    /\ h.step = "saved"
    /\ h.out = "write"
    /\ E.changed > 1
    /\ E.numRows > 1
    /\ E.statusMsg = Msg("Can't save! I/O error: %s", <<>>)

\* C13: when Escape cancels a search, after editorFind returns cursorX,
\* cursorY, rowOffset and colOffset are what they were when the search
\* began, whatever matches were visited; when Enter accepts it they are not
\* restored and the cursor stays where the search left it, on the last
\* match.
C13_CancelRestores ==
    /\ h.step = "cancelled" =>
          /\ E.cursorX = h.out.cursorX /\ E.cursorY = h.out.cursorY
          /\ E.rowOffset = h.out.rowOffset /\ E.colOffset = h.out.colOffset
    /\ h.step = "accepted" =>
          /\ E.cursorX = h.in.E.cursorX /\ E.cursorY = h.in.E.cursorY
          /\ E.rowOffset = h.in.E.rowOffset /\ E.colOffset = h.in.E.colOffset
          /\ h.in.F.lastMatch /= -1 =>
                /\ E.cursorY = h.in.F.lastMatch
                /\ E.cursorY \in Matches(E, h.in.E.statusMsg.arg)

\* Escape after a match on another row, from a window scrolled both ways.
C13_Witness ==
    /\ h.step = "cancelled" /\ pc = "refresh"
    /\ h.in.F.lastMatch /= -1
    /\ h.in.E.cursorY /= h.out.cursorY
    /\ h.out.cursorX > 0 /\ h.out.rowOffset > 0 /\ h.out.colOffset > 0
    /\ E.cursorY = h.out.cursorY /\ E.rowOffset = h.out.rowOffset

\* The rows with a Match class in their highlight.
MatchRows(E1) ==
    {y \in 0..(E1.numRows - 1) :
        \E i \in 1..Len(E1.row[y + 1].highlight) :
            E1.row[y + 1].highlight[i] = HIGHLIGHT_MATCH}

\* C14: through the keys of a find prompt at most one row holds Match
\* classes, the row of the last match; every other row's highlight is what
\* editorUpdateSyntax gives its render form, and once Enter or Escape has
\* ended the prompt that is so of every row.
C14_OneMatchRow ==
    LET M == MatchRows(E)
    IN  /\ Cardinality(M) <= 1
        /\ M /= {} => (prompt.kind = "find" /\ F.saved /\ M = {F.savedHighlightedLine})
        /\ \A y \in (0..(E.numRows - 1)) \ M :
              E.row[y + 1].highlight = editorUpdateSyntax(E.row[y + 1]).highlight
        /\ h.step \in {"cancelled", "accepted"} => M = {}
        /\ prompt.kind /= "find" => M = {}

\* Escape on a prompt whose match was painted over a number.
C14_Witness ==
    /\ h.step = "cancelled"
    /\ MatchRows(h.in.E) /= {}
    /\ \E i \in 1..Len(h.in.F.savedHighlight) :
          /\ h.in.F.savedHighlight[i] = HIGHLIGHT_NUMBER
          /\ h.in.E.row[h.in.F.savedHighlightedLine + 1].highlight[i] = HIGHLIGHT_MATCH
          /\ E.row[h.in.F.savedHighlightedLine + 1].highlight[i] = HIGHLIGHT_NUMBER
    /\ MatchRows(E) = {}

\* C15: every frame editorRefreshScreen writes starts with cursor-hide then
\* cursor-home and ends with the cursor-position command followed by
\* cursor-show, and the terminal cursor is shown after each refresh.
C15_FrameShowsCursor ==
    pc = "key" =>
        /\ tty.cursor = "shown"
        /\ \A fresh \in BOOLEAN :
              LET f == Frame(E, fresh)
              IN  /\ f[1] = HideCursor /\ f[2] = CursorHome
                  /\ f[Len(f) - 1] = CursorPosition((E.cursorY - E.rowOffset) + 1,
                                                    (E.renderX - E.colOffset) + 1)
                  /\ f[Len(f)] = ShowCursor

\* What the code does keep: the frame's first two and last two pieces, the
\* last being cursor-hide, and the cursor hidden after every refresh.
C15_FrameHidesCursor ==
    pc = "key" =>
        /\ tty.cursor = "hidden"
        /\ \A fresh \in BOOLEAN :
              LET f == Frame(E, fresh)
              IN  /\ f[1] = HideCursor /\ f[2] = CursorHome
                  /\ f[Len(f) - 1] = CursorPosition((E.cursorY - E.rowOffset) + 1,
                                                    (E.renderX - E.colOffset) + 1)
                  /\ f[Len(f)] = HideCursor
                  /\ \A i \in 1..Len(f) : f[i] /= ShowCursor

\* The sequence q with x put before its element of 0-based index at.
WithAt(q, at, x) == [i \in 1..(Len(q) + 1) |->
                        IF i <= at THEN q[i] ELSE IF i = at + 1 THEN x ELSE q[i - 1]]

\* The sequence q without its element of 0-based index at.
WithoutAt(q, at) == [i \in 1..(Len(q) - 1) |-> IF i <= at THEN q[i] ELSE q[i + 1]]

Clamp(x, lo, hi) == IF x < lo THEN lo ELSE IF x > hi THEN hi ELSE x

\* C16 (as stated): editorInsertRow always inserts one row, at the index at
\* clamped into [0, numRows].
C16_InsertRowClamps ==
    h.step = "editorInsertRow" =>
        LET at == Clamp(h.in.args[1], 0, h.in.E.numRows)
        IN  /\ E.numRows = h.in.E.numRows + 1
            /\ RawRows(E) = WithAt(RawRows(h.in.E), at, h.in.args[2])
            /\ E.changed = h.in.E.changed + 1

\* C16 (amended): editorInsertRow with 0 <= at <= numRows inserts one row at
\* index at: the rows before it stay, the rows from it on move up by one in
\* their order, numRows and the modified counter grow by 1; with at outside
\* [0, numRows] it does nothing.
C16_InsertRow ==
    h.step = "editorInsertRow" =>
        LET at == h.in.args[1]
        IN  IF 0 <= at /\ at <= h.in.E.numRows
            THEN /\ E.numRows = h.in.E.numRows + 1
                 /\ E.row = WithAt(h.in.E.row, at, NewRow(h.in.args[2]))
                 /\ RawRows(E) = WithAt(RawRows(h.in.E), at, h.in.args[2])
                 /\ E.changed = h.in.E.changed + 1
            ELSE E = h.in.E

\* A row put between the first and the second of three.
C16_Witness ==
    /\ h.step = "editorInsertRow"
    /\ h.in.E.numRows = 3 /\ h.in.args = <<1, <<97, TAB>> >>
    /\ E.numRows = 4 /\ E.row[2].chars = <<97, TAB>>
    /\ E.row[3] = h.in.E.row[2]

\* C17 (as stated): editorRowInsertCharacter clamps at into [0, row.size]: a
\* negative at inserts at index 0, an at above row.size at row.size.
C17_InsertCharClamps ==
    h.step = "editorRowInsertCharacter" =>
        LET y == h.in.args[1]
            old == h.in.E.row[y + 1]
            at == Clamp(h.in.args[2], 0, old.size)
        IN  /\ E.row[y + 1].chars = WithAt(old.chars, at, h.in.args[3])
            /\ E.row[y + 1].size = old.size + 1

\* C17 (amended): editorRowInsertCharacter inserts at index at when
\* 0 <= at <= row.size and at index row.size, the end of the row, when at
\* is negative or above row.size; the bytes before the index stay, the
\* bytes from it on shift right by one and row.size grows by 1.
C17_InsertChar ==
    h.step = "editorRowInsertCharacter" =>
        LET y == h.in.args[1]
            old == h.in.E.row[y + 1]
            at == IF 0 <= h.in.args[2] /\ h.in.args[2] <= old.size
                  THEN h.in.args[2] ELSE old.size
        IN  /\ E.row[y + 1].chars = WithAt(old.chars, at, h.in.args[3])
            /\ E.row[y + 1].size = old.size + 1
            /\ E.row[y + 1] = NewRow(E.row[y + 1].chars)
            /\ \A i \in 1..E.numRows : i /= y + 1 => E.row[i] = h.in.E.row[i]
            /\ E.numRows = h.in.E.numRows
            /\ E.changed = h.in.E.changed + 1

\* A tab put at index -1 of "a\tb": it lands at the end.
C17_Witness ==
    /\ h.step = "editorRowInsertCharacter"
    /\ h.in.args = <<0, -1, TAB>>
    /\ h.in.E.row[1].chars = <<97, TAB, 98>>
    /\ E.row[1].chars = <<97, TAB, 98, TAB>>

\* C18: editorDeleteRow with at outside [0, numRows) and
\* editorRowDeleteCharacter with at outside [0, row.size) change nothing;
\* with an index in range the one element is removed and the later ones
\* shift down by one.
C18_DeleteOutOfRange ==
    /\ h.step = "editorDeleteRow" =>
          LET at == h.in.args[1]
          IN  IF 0 <= at /\ at < h.in.E.numRows
              THEN /\ E.numRows = h.in.E.numRows - 1
                   /\ E.row = WithoutAt(h.in.E.row, at)
              ELSE E = h.in.E
    /\ h.step = "editorRowDeleteCharacter" =>
          LET y == h.in.args[1]
              at == h.in.args[2]
              old == h.in.E.row[y + 1]
          IN  IF 0 <= at /\ at < old.size
              THEN /\ E.row[y + 1].chars = WithoutAt(old.chars, at)
                   /\ E.row[y + 1].size = old.size - 1
                   /\ E.numRows = h.in.E.numRows
                   /\ \A i \in 1..E.numRows : i /= y + 1 => E.row[i] = h.in.E.row[i]
              ELSE E = h.in.E

\* editorDeleteRow called with at = numRows on three rows.
C18_Witness ==
    /\ h.step = "editorDeleteRow"
    /\ h.in.E.numRows = 3 /\ h.in.args = <<3>>
    /\ E.numRows = 3 /\ E.changed = h.in.E.changed

RECURSIVE Concat(_)
Concat(rows) == IF rows = <<>> THEN <<>> ELSE Head(rows) \o Concat(Tail(rows))

\* The sequence q with its element of 0-based index at replaced by x.
ReplacedAt(q, at, x) == [i \in 1..Len(q) |-> IF i = at + 1 THEN x ELSE q[i]]

\* C19: Backspace returns having changed nothing at (0, 0); at column 0 of
\* a row y > 0 it has appended row y to row y - 1, removed row y and left
\* the cursor at (y - 1, L), L the length row y - 1 had; at x > 0 it has
\* removed the byte at x - 1 of the cursor's row and decremented x.  In
\* every case the concatenation of the rows is the same or one byte shorter.
C19_Backspace ==
    [][(\E c \in {BACKSPACE, CTRL_KEY(104)} : KeyDeleteC(c)) =>
        LET y == E.cursorY
            x == E.cursorX
            old == RawRows(E)
            new == RawRows(E')
        IN  /\ pc' = "refresh"
            /\ (y = 0 /\ x = 0) =>
                  new = old /\ E'.cursorX = 0 /\ E'.cursorY = 0
            /\ (x = 0 /\ 0 < y /\ y < E.numRows) =>
                  /\ new = WithoutAt(ReplacedAt(old, y - 1, old[y] \o old[y + 1]), y)
                  /\ E'.numRows = E.numRows - 1
                  /\ E'.cursorY = y - 1 /\ E'.cursorX = Len(old[y])
            /\ x > 0 =>
                  /\ new = ReplacedAt(old, y, WithoutAt(old[y + 1], x - 1))
                  /\ E'.cursorY = y /\ E'.cursorX = x - 1
            /\ \/ Concat(new) = Concat(old)
               \/ \E i \in 0..(Len(Concat(old)) - 1) :
                     Concat(new) = WithoutAt(Concat(old), i)
      ]_vars

\* C20: Enter with the cursor at (y, x) returns with one row more and the
\* cursor at (y + 1, 0); with x = 0 the new row is an empty row at index y
\* and the former row y is row y + 1; with x > 0 row y keeps its first x
\* bytes and the new row y + 1 holds the rest; the other rows keep their
\* content and order.
C20_InsertNewline ==
    [][KeyNewline =>
        LET y == E.cursorY
            x == E.cursorX
            old == RawRows(E)
            new == RawRows(E')
        IN  /\ pc' = "refresh"
            /\ E'.numRows = E.numRows + 1
            /\ E'.cursorY = y + 1 /\ E'.cursorX = 0
            /\ y <= E.numRows
            /\ IF x = 0
               THEN new = WithAt(old, y, <<>>)
               ELSE new = WithAt(ReplacedAt(old, y, SubSeq(old[y + 1], 1, x)), y + 1,
                                 SubSeq(old[y + 1], x + 1, Len(old[y + 1])))
      ]_vars

\* C21: the Left key returns with x one less when x > 0, with the cursor at
\* (y - 1, row[y - 1].size) when x = 0 and y > 0, and with the cursor where
\* it was at (0, 0); the Right key with x one more when x < row[y].size,
\* with the cursor at (y + 1, 0) when x = row[y].size on a row, and with
\* the cursor where it was on the line past the last row.
C21_LeftRight ==
    [][LET y == E.cursorY
           x == E.cursorX
       IN  /\ KeyArrowC(ARROW_LEFT) =>
                 /\ pc' = "refresh"
                 /\ x > 0 => E'.cursorY = y /\ E'.cursorX = x - 1
                 /\ (x = 0 /\ y > 0) =>
                       /\ E'.cursorY = y - 1
                       /\ y - 1 < E.numRows
                       /\ E'.cursorX = E.row[y].size
                 /\ (x = 0 /\ y = 0) => E'.cursorY = 0 /\ E'.cursorX = 0
           /\ KeyArrowC(ARROW_RIGHT) =>
                 /\ pc' = "refresh"
                 /\ (y < E.numRows /\ x < E.row[y + 1].size) =>
                       E'.cursorY = y /\ E'.cursorX = x + 1
                 /\ (y < E.numRows /\ x = E.row[y + 1].size) =>
                       E'.cursorY = y + 1 /\ E'.cursorX = 0
                 /\ y = E.numRows => E'.cursorY = y /\ E'.cursorX = x
      ]_vars

\* The size of row y of E1, 0 on the line past the last row.
SizeAt(E1, y) == IF y < E1.numRows THEN E1.row[y + 1].size ELSE 0

Min(a, b) == IF a < b THEN a ELSE b

\* C22: the Up and Down keys change y by one, or leave it when that would
\* take it out of [0, numRows]; x becomes the smaller of the old x and the
\* size of the new current row (0 on the line past the last row), and the
\* document is unchanged.
C22_UpDown ==
    [][\A key \in {ARROW_UP, ARROW_DOWN} :
          KeyArrowC(key) =>
              LET y == E.cursorY
                  to == IF key = ARROW_UP THEN y - 1 ELSE y + 1
                  y1 == IF 0 <= to /\ to <= E.numRows THEN to ELSE y
              IN  /\ pc' = "refresh"
                  /\ E'.cursorY = y1
                  /\ E'.cursorX = Min(E.cursorX, SizeAt(E, y1))
                  /\ E'.row = E.row /\ E'.numRows = E.numRows
                  /\ E'.changed = E.changed
      ]_vars

\* C24: editorUpdateSyntax gives one class per render character; a
\* character is Number exactly when it is a digit that is first in the row
\* or follows a separator or a Number character, or it is '.' right after a
\* Number character; every other character is Normal.
C24_Highlighter ==
    h.step = "ret" =>
        LET render == h.in
            hl == h.out.highlight
        IN  /\ Len(hl) = Len(render)
            /\ \A i \in 1..Len(render) :
                  /\ hl[i] \in {HIGHLIGHT_NUMBER, HIGHLIGHT_NORMAL}
                  /\ hl[i] = HIGHLIGHT_NUMBER <=>
                        \/ /\ isdigit(render[i])
                           /\ \/ i = 1
                              \/ isSeparator(render[i - 1])
                              \/ hl[i - 1] = HIGHLIGHT_NUMBER
                        \/ /\ render[i] = 46
                           /\ i > 1 /\ hl[i - 1] = HIGHLIGHT_NUMBER

\* "a1 1": the digit after the letter is Normal, the one after the space
\* Number.
C24_Witness ==
    /\ h.step = "ret"
    /\ h.in = <<97, 49, SPACE, 49>>
    /\ h.out.highlight = <<HIGHLIGHT_NORMAL, HIGHLIGHT_NORMAL, HIGHLIGHT_NORMAL,
                           HIGHLIGHT_NUMBER>>

\* The last of the rows M before row last, or the last of M when none is.
PrevMatch(M, last) ==
    IF M = {} THEN -1
    ELSE LET before == {m \in M : m < last}
             from == IF before = {} THEN M ELSE before
         IN  CHOOSE m \in from : \A n \in from : m >= n

\* C26: in the find prompt with a previous match on row r, Up or Left moves
\* to the nearest matching row before r, wrapping from row 0 to the last
\* row (to r itself when no other row matches); any key that is not an
\* arrow resets the last match and the direction, so that its scan, if it
\* makes one, starts at row 0 and goes forward.
C26_BackwardSearch ==
    Len(h.in) >= 1 =>
        LET n == Len(h.in)
            key == h.in[n][1]
            last == IF n = 1 THEN -1 ELSE h.in[n - 1][2]
        IN  /\ (prompt.kind = "find" /\ pc = "refresh"
                  /\ key \in {ARROW_UP, ARROW_LEFT} /\ last /= -1) =>
                /\ last \in Matches(E, prompt.buffer)
                /\ F.lastMatch = PrevMatch(Matches(E, prompt.buffer), last)
                /\ E.cursorY = F.lastMatch
                /\ F.direction = -1
            /\ (prompt.kind = "find" /\ pc = "refresh" /\ key \notin Arrows) =>
                /\ F.direction = 1
                /\ F.lastMatch = IF key = CR THEN -1
                                 ELSE NextMatch(Matches(E, prompt.buffer), -1)
            /\ (prompt.kind = "none" /\ key \in {ESC, CR}) =>
                F.lastMatch = -1 /\ F.direction = 1

\* "foo" typed, then Up and Left: from row 0 the search wraps to row 2 and
\* is then back on row 0.
C26_Witness ==
    /\ prompt.kind = "find" /\ pc = "refresh"
    /\ RawRows(E) = FooRows
    /\ LogKeys = <<102, 111, 111, ARROW_UP, ARROW_LEFT>>
    /\ h.in[4][2] = 2 /\ F.lastMatch = 0 /\ E.cursorY = 0

\* The highlights of the rows of E1.
Highlights(E1) == [i \in 1..Len(E1.row) |-> E1.row[i].highlight]

\* The call of h.in left the cursor, the scroll offsets and the text alone.
CallMovedNothing ==
    /\ E.cursorX = h.in.E.cursorX /\ E.cursorY = h.in.E.cursorY
    /\ E.rowOffset = h.in.E.rowOffset /\ E.colOffset = h.in.E.colOffset
    /\ E.numRows = h.in.E.numRows /\ RawRows(E) = RawRows(h.in.E)

\* The call of h.in examined each row at most once.
CallVisitsOnce ==
    LET visits == editorFindVisits([E |-> h.in.E, F |-> h.in.F], h.in.query, h.in.key)
    IN  /\ Len(visits) <= h.in.E.numRows
        /\ \A i, j \in 1..Len(visits) : visits[i] = visits[j] => i = j
        /\ \A i \in 1..Len(visits) : visits[i] \in 0..(h.in.E.numRows - 1)
        /\ (h.in.key \notin {CR, ESC} /\ Matches(h.in.E, h.in.query) = {}) =>
              Len(visits) = h.in.E.numRows
        /\ (h.in.key \notin {CR, ESC} /\ Matches(h.in.E, h.in.query) /= {}) =>
              visits[Len(visits)] = F.lastMatch

\* C28 (as stated): a call of the search callback examines each row at most
\* once; when no row holds the query it leaves the cursor, rowOffset,
\* colOffset, every row's highlight and the text unchanged.
C28_NoMatchChangesNothing ==
    (h.step = "called" /\ pc = "refresh" /\ h.in.key /= ESC) =>
        /\ CallVisitsOnce
        /\ Matches(h.in.E, h.in.query) = {} =>
              /\ CallMovedNothing
              /\ Highlights(E) = Highlights(h.in.E)

\* C28 (amended): a call of the search callback examines each row at most
\* once; when no row holds the query it leaves the cursor, rowOffset,
\* colOffset and the text unchanged, and every row's highlight unchanged
\* but for the row the previous call marked, which gets back the highlight
\* it had before the mark.
C28_NoMatch ==
    (h.step = "called" /\ pc = "refresh" /\ h.in.key /= ESC) =>
        /\ CallVisitsOnce
        /\ Matches(h.in.E, h.in.query) = {} =>
              /\ CallMovedNothing
              /\ \A i \in 1..E.numRows :
                    E.row[i].highlight =
                        IF h.in.F.saved /\ i = h.in.F.savedHighlightedLine + 1
                        THEN h.in.F.savedHighlight
                        ELSE h.in.E.row[i].highlight

\* A byte typed after a hit makes a query no row holds: the mark of the hit
\* is gone and the cursor is where the hit put it.
C28_Witness ==
    /\ h.step = "called" /\ pc = "refresh"
    /\ h.in.key = 102 /\ h.in.F.saved
    /\ Matches(h.in.E, h.in.query) = {}
    /\ Highlights(E) /= Highlights(h.in.E)
    /\ E.cursorY = h.in.E.cursorY /\ E.rowOffset = h.in.E.rowOffset
    /\ F.lastMatch = -1

\* C27: the Delete key with the cursor at (y, x) on a row or on the line
\* past the last one leaves the cursor at (y, x); on a row it removes the
\* byte at x, or at the end of a row that is not the last joins the next
\* row onto it, or at the end of the last row changes nothing.
C27_DeleteKeepsCursor ==
    [][(KeyDeleteC(DEL_KEY) /\ E.cursorY <= E.numRows) =>
        LET y == E.cursorY
            x == E.cursorX
            old == RawRows(E)
            new == RawRows(E')
        IN  /\ pc' = "refresh"
            /\ E'.cursorY = y /\ E'.cursorX = x
            /\ y = E.numRows => new = old
            /\ (y < E.numRows /\ x < Len(old[y + 1])) =>
                  new = ReplacedAt(old, y, WithoutAt(old[y + 1], x))
            /\ (y < E.numRows - 1 /\ x = Len(old[y + 1])) =>
                  new = WithoutAt(ReplacedAt(old, y, old[y + 1] \o old[y + 2]), y + 1)
            /\ (y = E.numRows - 1 /\ x = Len(old[y + 1])) => new = old
      ]_vars

\* E1, the document a row or character operation left, differs from E only
\* with a larger modified counter.
Counted(E1) == E1.row /= E.row => E1.changed > E.changed

\* Each of the five row and character operations, called on the document
\* of this state with any index, counts the change it makes.
OperationsCount ==
    /\ \A at \in (-1)..(E.numRows + 1) :
          /\ \A s \in OpsStrings : Counted(editorInsertRow(E, at, s))
          /\ Counted(editorDeleteRow(E, at))
    /\ \A y \in 0..(E.numRows - 1) :
          /\ \A s \in OpsStrings : Counted(editorRowAppendString(E, y, s))
          /\ \A at \in (-1)..(E.row[y + 1].size + 1) :
                /\ \A c \in InsertChars : Counted(editorRowInsertCharacter(E, y, at, c))
                /\ Counted(editorRowDeleteCharacter(E, y, at))

\* C25: the modified counter grows with every row or character operation,
\* and so with every key, that changes the document; cursor movement,
\* search and rendering leave it alone; it is 0 when a file has been loaded
\* and drops, to 0, only with a successful save.
C25_ModifiedCounter ==
    /\ []((pc = "key" /\ prompt.kind = "none") => OperationsCount)
    /\ [][/\ (pc /= "main" /\ RawRows(E') /= RawRows(E)) => E'.changed > E.changed
          /\ (E'.changed /= E.changed \/ RawRows(E') /= RawRows(E)) =>
                 ~(\/ pc = "refresh" \/ prompt.kind = "find"
                   \/ KeyArrow \/ KeyPage \/ KeyHome \/ KeyEnd \/ KeyFind)
          /\ pc = "main" => E'.changed = 0
          /\ E'.changed < E.changed =>
                 /\ E'.changed = 0
                 /\ E'.statusMsg.fmt = "%d bytes written to disk"
                 /\ RawRows(E') = RawRows(E)
         ]_vars

\* An edited document just saved: it is not a file's content as loaded and
\* its modified counter is 0.
C25_Witness ==
    /\ pc = "refresh"
    /\ E.changed = 0
    /\ E.statusMsg.fmt = "%d bytes written to disk"
    /\ \A f \in StartFiles :
          E.row /= editorOpen([E EXCEPT !.row = <<>>, !.numRows = 0], f[1], f[2]).row
    /\ E.numRows > 0

\* chars with each tab replaced by the spaces that take the row to the next
\* multiple of the tab stop.
RECURSIVE Expanded(_)
Expanded(chars) ==
    IF chars = <<>> THEN <<>>
    ELSE LET n == Len(chars)
             before == Expanded(SubSeq(chars, 1, n - 1))
         IN  IF chars[n] = TAB
             THEN before \o [k \in 1..(SIMPAD_TAB_STOP - (Len(before) % SIMPAD_TAB_STOP))
                                |-> SPACE]
             ELSE Append(before, chars[n])

\* C23: outside the find prompt every row's render is its raw content with
\* the tabs expanded to the next multiple of 8, and its highlight has one
\* class for each render character, the one editorUpdateSyntax gives that
\* render content.
C23_DerivedData ==
    prompt.kind /= "find" =>
        /\ Len(E.row) = E.numRows
        /\ \A i \in 1..E.numRows :
              LET row == E.row[i]
              IN  /\ row.size = Len(row.chars)
                  /\ row.render = Expanded(row.chars)
                  /\ row.renderSize = Len(row.render)
                  /\ Len(row.highlight) = Len(row.render)
                  /\ row.highlight = editorUpdateSyntax(row).highlight

\* A typed row "1\t" after an edit: it renders 8 wide and its digit is a
\* Number.
C23_Witness ==
    /\ pc = "key" /\ prompt.kind = "none"
    /\ E.changed > 0
    /\ \E i \in 1..E.numRows :
          /\ E.row[i].chars = <<49, TAB>>
          /\ E.row[i].renderSize = SIMPAD_TAB_STOP
          /\ E.row[i].highlight[1] = HIGHLIGHT_NUMBER

====
